---- MODULE Spec2Model ----
(***************************************************************************)
(* A model of the console subsystem of score.itf                           *)
(* (src/score/itf/core/process/console.py): LineReaderQueue, LineReader    *)
(* and Console.                                                            *)
(*                                                                         *)
(* Every access to a LineReaderQueue is made under its mutex, so each      *)
(* critical section is one atomic action.  Condition.wait releases the     *)
(* mutex: a consumer that waits is in state "waiting" until it is notified *)
(* or its timer runs out, and then re-enters the critical section in one   *)
(* further action.  Time is kept as count-down timers that the action Tick *)
(* decrements: a timer at 0 is a deadline that has passed.                 *)
(*                                                                         *)
(* The Environment backends (src/score/itf/core/environment/noop.py,       *)
(* bwrap.py, docker_env.py and src/score/sctf/environment/docker_env.py)   *)
(* are modelled with the processes they start: execute, stop_process,      *)
(* is_process_running and teardown.  One tick is one second; psutil and    *)
(* the container runtime are the environment of the model: a process exits *)
(* by itself or under a signal at any time, a collected process makes      *)
(* terminate() raise NoSuchProcess, and a kill in a container may have no  *)
(* effect.                                                                 *)
(*                                                                         *)
(* Further layers model the discovery of the application below a bwrap     *)
(* supervisor (_find_application), setup and teardown with the containers  *)
(* and images of the runtime, copy_to and copy_from on a small file        *)
(* system, and the mounts of the bwrap command line                        *)
(* (src/score/sctf/sandbox/sandbox.py).                                    *)
(***************************************************************************)
EXTENDS Integers, Sequences, FiniteSets, TLC

\* ---------------------------------------------------------------- bounds
MaxCap == 2         \* capacities 0 (unbounded) .. MaxCap of the queue under test
MaxPuts == 3        \* lines put into the queue under test in one run
MaxTimeout == 1     \* the longest timeout, in ticks, a call is made with
NConsumers == 2     \* consumer threads of the queue under test
ReaderCap == 2      \* stands for max_size=400 of a LineReader's queue (line 227)
ConsoleCap == 1     \* stands for the same max_size=400 in the runs with a Console
MaxLines == 2       \* lines one LineReader reads from its stream in one run
ConsoleLines == 3   \* lines the reader of a Console reads in one run
MaxCbks == 3        \* callbacks registered with add_expr_cbk in one run
MaxHandles == 2     \* handles one Environment returns in one run
MaxStop == 2        \* the longest timeout, in ticks, of a stop_process
MaxStops == 2       \* stop_process calls that return, per handle
MaxExecs == 2       \* command lines built for one sandbox
MaxSetups == 3      \* setup calls made on one Environment
MaxProcs == 3       \* processes that run under one bwrap supervisor
RetryCount == 2     \* stands for retry_count=150 of BwrapEnvironment (line 84)

Consumers == 1..NConsumers

\* The LineReaders, and their LineReaderQueues: queue r is the one reader r
\* creates for itself (line 227), SharedQ is LineReader.log_queues[logfile]
\* (line 232), and TestQ is a LineReaderQueue used on its own.
Readers == {1, 2}
SharedQ == 0
TestQ == 1
Queues == {SharedQ} \cup Readers

VARIABLES
    max_size,       \* per queue: LineReaderQueue.max_size
    queue,          \* per queue: LineReaderQueue.queue, oldest line first
    waiters,        \* per queue: the threads waiting on not_empty, oldest first
    nput,           \* how many lines were put into the queue under test
    gpc,            \* per consumer: "idle" or "waiting" (inside not_empty.wait)
    gq,             \* per consumer: the queue its get was called on
    gblock,         \* per consumer: whether its wait has no timeout (timeout=None)
    timer,          \* per consumer: ticks left until endtime of its get
    notified,       \* per consumer: not_empty.notify released its waiter lock
    gres,           \* the outcome of the get that ended in the last step, if one did
    putDuring,      \* per waiting consumer: a line was put since its get was called
    otherRemoved,   \* per waiting consumer: another get or a clear removed a line since
    sinceMark       \* nput at the last get or clear on the queue under test

qvars == <<max_size, queue, waiters, nput, gpc, gq, gblock, timer, notified, gres,
           putDuring, otherRemoved, sinceMark>>

VARIABLES
    name,           \* per reader: LineReader.name
    logfile,        \* per reader: whether LineReader._logfile is set (to the one path)
    rpc,            \* per reader thread: "new", "read", "dispatch", "ended" or "dead"
    nread,          \* per reader: how many lines readline_func has returned
    cur,            \* per reader: the line being dispatched (stripped)
    lastRead,       \* the line read in the last step, if one was: reader, index,
                    \* text, and what the step appended to the logfile
    expr_cbks,      \* per reader: LineReader._expr_cbks, keys in insertion order
    nreg,           \* how many callbacks were registered; callback k is the k-th
    diter,          \* per reader: the iterator of the for loop over _expr_cbks
    snap,           \* per reader: _expr_cbks when the dispatch of cur began
    invoked,        \* per reader: the callbacks called for cur so far, in order
    lastGot         \* per queue q and reader r: the index of the last line of r
                    \* that a get on q returned

rvars == <<name, logfile, rpc, nread, cur, lastRead, expr_cbks, nreg, diter,
           snap, invoked, lastGot>>

VARIABLES
    cpc,            \* the caller of the Console: where it is in its call
    cop,            \* the call it is in, with its arguments
    budget,         \* ticks left until start + timeout of the call
    rem,            \* time_remaining (read_cond), remaining (run_sh_cmd_output)
    checks,         \* read_cond: checks
    cline,          \* the line the last get returned, until it is examined
    output,         \* run_sh_cmd_output: output
    cres,           \* what the call returned or raised
    written,        \* what run_cmd and write did, in order
    seen,           \* the lines the call has consumed, in order
    atCall,         \* the lines that were in the queue when the call began
    skipped,        \* the lines read that were never put into the queue
    evicted         \* the lines that a put on the full queue has dropped

cvars == <<cpc, cop, budget, rem, checks, cline, output, cres, written, seen,
           atCall, skipped, evicted>>

VARIABLES
    backend,        \* the Environment: "noop", "bwrap", "docker" (itf.core) or "sctf"
    env_timeout,    \* Environment._timeout, in ticks
    handles,        \* Environment._handles: the tracked handles, oldest first
    made,           \* per handle: execute has returned it
    child,          \* per handle: ProcessHandle.child is set
    exit_code,      \* per handle: ProcessHandle.exit_code, <<>> for None, <<c>> for c
    pst,            \* per handle: the process behind handle.parent (the target, the
                    \* bwrap supervisor or the exec): "none", "run", "exited"
                    \* (ended, its code not collected) or "gone" (code collected)
    pcode,          \* per handle: the exit code of that process once it has ended
    psig,           \* per handle: the signal sent to it that has not acted yet
    cst,            \* per handle: the target under the supervisor: "none", "run", "gone"
    ccode,          \* per handle: the exit code of that target once it is gone
    csig,           \* per handle: the signal sent to it that has not acted yet
    stubborn,       \* per handle: the target ignores the graceful signal
    thr,            \* per handle: its output-reader threads: "none", "alive", "done"
    spc,            \* where the caller is in stop_process
    sarg,           \* the stop_process call: handle, timeout, the local exit_code
    stimer,         \* ticks left of the wait the call is in
    sres,           \* how the last stop_process ended
    tpc,            \* where the caller is in teardown
    tlist,          \* teardown: what is left of list(self._handles)
    eres,           \* how the last execute ended
    spawned,        \* how many processes execute has spawned
    gterm,          \* this stop_process: ticks since its graceful request, -1 if none
    gkill,          \* this stop_process: gterm when it sent the kill, -2 if none
    nstops,         \* per handle: how many stop_process calls have returned
    first,          \* per handle: what the first of them returned
    tseen,          \* teardown: the handles it has dealt with, in order
    tfailed         \* teardown: the handles whose stop_process raised

evars == <<backend, env_timeout, handles, made, child, exit_code, pst, pcode, psig,
           cst, ccode, csig, stubborn, thr, spc, sarg, stimer, sres, tpc, tlist,
           eres, spawned, gterm, gkill, nstops, first, tseen, tfailed>>

VARIABLES
    tree,           \* per process under the supervisor: its parent and what psutil
                    \* tells of it
    live,           \* the processes under the supervisor that are alive
    parent_proc,    \* the supervisor of this execute: "none", "run", "exited"
                    \* (ended, its code not collected) or "gone" (code collected)
    fpc,            \* where the caller is in execute
    attempt,        \* the attempts of _inner tenacity has made
    result,         \* what _find_application returned
    raised,         \* the exception _find_application raised, "none" if none
    polled,         \* what the last parent.poll() found: "alive" or "ended"
    walked,         \* what the last walk(parent) ended with
    eout,           \* how execute ended: "handle" or "raised"
    hchild,         \* handle.child, <<>> for None
    hpid,           \* handle.pid, <<>> for None
    tracked         \* the handle is in self._handles

dvars == <<tree, live, parent_proc, fpc, attempt, result, raised, polled, walked,
           eout, hchild, hpid, tracked>>

VARIABLES
    conf,           \* what the Environment was constructed with
    image,          \* self._image: "none", "caller" or "transient"
    tmp_image_tag,  \* self._tmp_image_tag, "none" for None
    client,         \* self._client is set
    container,      \* self._container (self._docker in sctf), 0 for None
    up,             \* the containers of this Environment that run
    nrun,           \* the containers the runtime has started for it
    images,         \* the images the runtime holds, of "caller" and "transient"
    nsetup,         \* the calls of setup made
    setup_res,      \* how the last setup ended: "returned" or "raised"
    last,           \* the last call made: "setup" or "teardown"
    imported,       \* a setup has imported the sysroot
    removed         \* a teardown has asked for the removal of an image

kvars == <<conf, image, tmp_image_tag, client, container, up, nrun, images,
           nsetup, setup_res, last, imported, removed>>

VARIABLES
    copier,         \* the backend of the Environment that copies
    source,         \* what is at the path copy_to was given on the host
    host,           \* per host path: what is there
    inside,         \* per path inside the environment: what is there
    env_path,       \* the path inside the environment given to both calls
    host_path,      \* the path on the host given to copy_from
    xpc             \* "start", "copied" after copy_to, "back" after copy_from

fvars == <<copier, source, host, inside, env_path, host_path, xpc>>

VARIABLES
    builder,            \* the class that builds the command line
    extra_mount_list,   \* its own list of extra mounts
    env_mounts,         \* environment.extra_mount_list of a BwrapSandbox
    cmd_mounts,         \* the extra mounts of the last command line built
    nexec               \* the command lines built

mvars == <<builder, extra_mount_list, env_mounts, cmd_mounts, nexec>>

VARIABLES
    time_points,    \* mark: time_points, a time.time() noted as "ts"
    upto,           \* mark: per pair of time_points, how many lines the call had
                    \* consumed when read_until returned for it
    since,          \* mark: ticks since the command was run, up to the timeout
    intime          \* mark: how many of the lines consumed were consumed less
                    \* than timeout after the command was run

tvars == <<time_points, upto, since, intime>>

VARIABLES
    lock,           \* LineReader.log_locks[logfile]: the reader that holds it, or 0
    lpc,            \* per reader: where it is in the iteration of run
    file,           \* the entries the logfile holds, in order
    pending         \* per reader: the entries its file object has not flushed

lvars == <<lock, lpc, file, pending>>

VARIABLES
    sigterm,        \* the handler of SIGTERM of the interpreter: 0 is the one
                    \* installed before any start_process, w the
                    \* _signal_handler of ProcessWrapper w
    old_sigterm,    \* per ProcessWrapper: _old_sigterm, -1 for None
    process,        \* per ProcessWrapper: _process: "none", or what poll says
    phase           \* per ProcessWrapper: "started" from the call of
                    \* start_process until kill_process has returned

wvars == <<sigterm, old_sigterm, process, phase>>

\* The variables of the Console's mark, of the log section and of the
\* ProcessWrappers.
nvars == <<tvars, lvars, wvars>>

xvars == <<dvars, kvars, fvars, mvars, nvars>>

vars == <<qvars, rvars, cvars, evars, xvars>>

\* ------------------------------------------------------- LineReaderQueue
\* The outcome of a get: who called, what came out (kind, item), whether the
\* call waited, whether its deadline had passed when it ended, and what
\* happened to the queue while it waited.
Result(c, k, i, w) ==
    [who |-> c, kind |-> k, item |-> i, waited |-> w,
     expired |-> w /\ ~gblock[c] /\ timer[c] = 0,
     put |-> w /\ putDuring[c], removed |-> w /\ otherRemoved[c]]
NoResult ==
    [who |-> 0, kind |-> "none", item |-> 0, waited |-> FALSE,
     expired |-> FALSE, put |-> FALSE, removed |-> FALSE]
ItemResult(c, i, w) == Result(c, "item", i, w)
EmptyResult(c, w) == Result(c, "Empty", 0, w)
ValueErrorResult(c) == Result(c, "ValueError", 0, FALSE)

Without(w, c) == SelectSeq(w, LAMBDA d : d # c)

\* A put that never evicts.
QueuePutNoEvict(q, cap, item) == Append(q, item)

\* A put that drops the new line, not the oldest, when the queue is full.
QueuePutDropNew(q, cap, item) ==
    IF cap > 0 /\ Len(q) >= cap THEN q ELSE Append(q, item)

\* LineReaderQueue.put, lines 342-344: the queue after item is put.
QueuePut(q, cap, item) ==
    IF cap > 0 /\ Len(q) >= cap THEN Append(Tail(q), item) ELSE Append(q, item)

\* A put that notifies no one.
PutNoNotify(q, item) ==
    /\ queue' = [queue EXCEPT ![q] = QueuePut(queue[q], max_size[q], item)]
    /\ UNCHANGED <<waiters, notified>>
    /\ putDuring' = [c \in Consumers |->
                        putDuring[c] \/ (gpc[c] = "waiting" /\ gq[c] = q)]
    /\ gres' = NoResult
    /\ UNCHANGED <<max_size, gpc, gq, gblock, timer, otherRemoved, sinceMark>>

\* LineReaderQueue.put (lines 340-345) of item into queue q by any thread;
\* not_empty.notify() releases the oldest waiter, if there is one.
Put(q, item) ==
    /\ queue' = [queue EXCEPT ![q] = QueuePut(queue[q], max_size[q], item)]
    /\ IF waiters[q] = <<>>
       THEN UNCHANGED <<waiters, notified>>
       ELSE /\ waiters' = [waiters EXCEPT ![q] = Tail(waiters[q])]
            /\ notified' = [notified EXCEPT ![Head(waiters[q])] = TRUE]
    /\ putDuring' = [c \in Consumers |->
                        putDuring[c] \/ (gpc[c] = "waiting" /\ gq[c] = q)]
    /\ gres' = NoResult
    /\ UNCHANGED <<max_size, gpc, gq, gblock, timer, otherRemoved, sinceMark>>

\* The consumers other than c that wait inside a get on queue q see a line
\* removed from it.
Removal(c, q) ==
    [d \in Consumers |->
        otherRemoved[d] \/ (d # c /\ gpc[d] = "waiting" /\ gq[d] = q /\ queue[q] # <<>>)]

\* LineReaderQueue.clear (lines 367-369) of queue q by any thread.
Clear(q) ==
    /\ queue' = [queue EXCEPT ![q] = <<>>]
    /\ sinceMark' = nput
    /\ otherRemoved' = Removal(0, q)
    /\ gres' = NoResult
    /\ UNCHANGED <<max_size, waiters, nput, gpc, gq, gblock, timer, notified, putDuring>>

\* The get of consumer c on queue q ends with outcome res; q holds lines after it.
GetDone(c, q, res, lines) ==
    /\ gres' = res
    /\ gpc' = [gpc EXCEPT ![c] = "idle"]
    /\ gq' = [gq EXCEPT ![c] = q]
    /\ queue' = [queue EXCEPT ![q] = lines]
    /\ waiters' = [waiters EXCEPT ![q] = Without(waiters[q], c)]
    /\ notified' = [notified EXCEPT ![c] = FALSE]
    /\ gblock' = [gblock EXCEPT ![c] = FALSE]
    /\ timer' = [timer EXCEPT ![c] = 0]
    /\ putDuring' = [putDuring EXCEPT ![c] = FALSE]

\* A get that pops the newest line.
GetPopNewest(c, q, w) ==
    /\ GetDone(c, q, ItemResult(c, queue[q][Len(queue[q])], w),
               SubSeq(queue[q], 1, Len(queue[q]) - 1))
    /\ sinceMark' = nput
    /\ otherRemoved' = [Removal(c, q) EXCEPT ![c] = FALSE]

\* LineReaderQueue.get, lines 364-365: consumer c pops the oldest line of q.
GetPop(c, q, w) ==
    /\ GetDone(c, q, ItemResult(c, Head(queue[q]), w), Tail(queue[q]))
    /\ sinceMark' = nput
    /\ otherRemoved' = [Removal(c, q) EXCEPT ![c] = FALSE]

\* LineReaderQueue.get raises res in consumer c.
GetRaise(c, q, res) ==
    /\ GetDone(c, q, res, queue[q])
    /\ otherRemoved' = [otherRemoved EXCEPT ![c] = FALSE]
    /\ UNCHANGED sinceMark

\* not_empty.wait(), first half: consumer c joins the waiters of q and
\* releases the mutex.  tnone: no timeout; t: the ticks until endtime.
GetWait(c, q, tnone, t) ==
    /\ gpc' = [gpc EXCEPT ![c] = "waiting"]
    /\ gq' = [gq EXCEPT ![c] = q]
    /\ waiters' = [waiters EXCEPT ![q] = Append(Without(waiters[q], c), c)]
    /\ notified' = [notified EXCEPT ![c] = FALSE]
    /\ gblock' = [gblock EXCEPT ![c] = tnone]
    /\ timer' = [timer EXCEPT ![c] = t]
    /\ gres' = NoResult
    /\ UNCHANGED <<queue, sinceMark, putDuring, otherRemoved>>

\* LineReaderQueue.get (lines 347-365) on queue q, from the call to the first
\* wait, return or exception.  tnone: timeout is None.
GetEnter(c, q, block, tnone, timeout) ==
    /\ gpc[c] = "idle"
    /\ IF ~block
       THEN IF Len(queue[q]) = 0
            THEN GetRaise(c, q, EmptyResult(c, FALSE))
            ELSE GetPop(c, q, FALSE)
       ELSE IF tnone
       THEN IF Len(queue[q]) = 0 THEN GetWait(c, q, TRUE, 0) ELSE GetPop(c, q, FALSE)
       ELSE IF timeout < 0
       THEN GetRaise(c, q, ValueErrorResult(c))
       ELSE IF Len(queue[q]) # 0
       THEN GetPop(c, q, FALSE)
       ELSE IF timeout <= 0
       THEN GetRaise(c, q, EmptyResult(c, FALSE))
       ELSE GetWait(c, q, FALSE, timeout)
    /\ UNCHANGED <<max_size, nput>>

\* A get whose wait ends with an empty queue gives up at once.
GetWakeNoDeadline(c) ==
    /\ gpc[c] = "waiting"
    /\ notified[c] \/ (~gblock[c] /\ timer[c] = 0)
    /\ IF Len(queue[gq[c]]) # 0
       THEN GetPop(c, gq[c], TRUE)
       ELSE GetRaise(c, gq[c], EmptyResult(c, TRUE))
    /\ UNCHANGED <<max_size, nput>>

\* LineReaderQueue.get, lines 353-354 and 359-363: consumer c returns from
\* not_empty.wait (notified, or timed out), holds the mutex again and goes
\* round its while loop.
GetWake(c) ==
    /\ gpc[c] = "waiting"
    /\ notified[c] \/ (~gblock[c] /\ timer[c] = 0)
    /\ IF Len(queue[gq[c]]) # 0
       THEN GetPop(c, gq[c], TRUE)
       ELSE IF ~gblock[c] /\ timer[c] <= 0
       THEN GetRaise(c, gq[c], EmptyResult(c, TRUE))
       ELSE GetWait(c, gq[c], gblock[c], timer[c])
    /\ UNCHANGED <<max_size, nput>>

\* A step that calls no operation of a queue.
QueuesIdle ==
    /\ gres' = NoResult
    /\ UNCHANGED <<max_size, queue, waiters, nput, gpc, gq, gblock, timer, notified,
                   putDuring, otherRemoved, sinceMark>>

\* Time passes: one tick for every running timer of a get.
TimersRunning == \E c \in Consumers : gpc[c] = "waiting" /\ ~gblock[c] /\ timer[c] > 0

TickTimers ==
    timer' = [c \in Consumers |->
                 IF gpc[c] = "waiting" /\ ~gblock[c] /\ timer[c] > 0
                 THEN timer[c] - 1 ELSE timer[c]]

\* ------------------------------------------------------------ LineReader
\* Text is a sequence of characters.  "NUL" is the character \x00.
IsSpace(ch) == ch \in {" ", "\n", "\t"}

\* line.replace("\x00", ""), line 244.
RemoveNul(s) == SelectSeq(s, LAMBDA ch : ch # "NUL")

RECURSIVE LStrip(_)
LStrip(s) == IF s # <<>> /\ IsSpace(Head(s)) THEN LStrip(Tail(s)) ELSE s

RECURSIVE RStrip(_)
RStrip(s) ==
    IF s # <<>> /\ IsSpace(s[Len(s)]) THEN RStrip(SubSeq(s, 1, Len(s) - 1)) ELSE s

\* line.strip(), line 245.
Strip(s) == RStrip(LStrip(s))

\* expr in msg: expr occurs in msg as a contiguous piece.
Contains(msg, expr) ==
    \E off \in 0..(Len(msg) - Len(expr)) :
        \A i \in 1..Len(expr) : msg[off + i] = expr[i]

\* re.search(expr, msg), for patterns made of literal characters and ".",
\* which stands for any one character.
ReSearch(expr, msg) ==
    \E off \in 0..(Len(msg) - Len(expr)) :
        \A i \in 1..Len(expr) : expr[i] = "." \/ msg[off + i] = expr[i]

\* LineReader._check_msg, lines 319-320.
CheckMsg(msg, expr, regex) ==
    (regex /\ ReSearch(expr, msg)) \/ (~regex /\ Contains(msg, expr))

\* The queue behind get_line, _add_log and clear_history of reader r,
\* lines 227-233.
QOf(r) == IF logfile[r] THEN SharedQ ELSE r

\* f"[{datetime.now()}] [{self.name}] - {line}", lines 246-248.
Message(r, line) ==
    IF line # <<>> THEN <<"[", "ts", "]", " ", "[">> \o name[r] \o <<"]", " ", "-", " ">> \o line
    ELSE <<>>

\* What run enqueues for line with a logfile, lines 256-258.
Logged(r, line) ==
    IF Contains(name[r], <<"SIPDBG_02">>) THEN line ELSE Message(r, line)

\* A line in a queue: its text, and where it came from (reader, index in
\* that reader's stream).
Entry(r, k, text) == [rd |-> r, idx |-> k, text |-> text]

\* A step of run: the line read, and the text the step appended to the
\* logfile (<<>>: none; the file is only ever appended to, and never read).
ReadStep(r, k, text, wrote) == [rd |-> r, idx |-> k, text |-> text, wrote |-> wrote]
NoLine == ReadStep(0, 0, <<>>, <<>>)

\* The iterator of `for expr, regex in self._expr_cbks`: the size of the dict
\* when it was made, the key it stands at, and the position in that key's
\* list (0: between two keys).
NoIter == [size |-> 0, ki |-> 0, ci |-> 0]

\* Thread.start(): the reader thread enters run (line 235).
ReaderStart(r) ==
    /\ rpc[r] = "new"
    /\ rpc' = [rpc EXCEPT ![r] = "read"]
    /\ lastRead' = NoLine
    /\ UNCHANGED <<name, logfile, nread, cur, expr_cbks, nreg, diter, snap,
                   invoked, lastGot>>

\* LineReader.run, lines 239-264: readline_func returns raw, the line is
\* stripped, written to the logfile if there is one (wr: "ok", or the write
\* or the flush raises) and enqueued; then the loop over the callbacks begins.
ReaderRead(r, raw, wr) ==
    LET line == Strip(RemoveNul(raw))
        k == nread[r] + 1
    IN  /\ rpc[r] = "read"
        /\ nread' = [nread EXCEPT ![r] = k]
        /\ cur' = [cur EXCEPT ![r] = line]
        /\ lastRead' = ReadStep(r, k, line,
                                 IF logfile[r] /\ wr # "write_raises"
                                 THEN Message(r, line) \o <<" ", "\n">> ELSE <<>>)
        /\ IF logfile[r]
           THEN IF wr = "ok"
                THEN Put(QOf(r), Entry(r, k, Logged(r, line)))
                ELSE /\ gres' = NoResult
                     /\ UNCHANGED <<max_size, queue, waiters, gpc, gq, gblock, timer,
                                    notified, putDuring, otherRemoved, sinceMark>>
           ELSE /\ wr = "ok"
                /\ Put(QOf(r), Entry(r, k, line))
        /\ rpc' = [rpc EXCEPT ![r] = "dispatch"]
        /\ diter' = [diter EXCEPT ![r] = [size |-> Len(expr_cbks[r]), ki |-> 1, ci |-> 0]]
        /\ snap' = [snap EXCEPT ![r] = expr_cbks[r]]
        /\ invoked' = [invoked EXCEPT ![r] = <<>>]
        /\ UNCHANGED <<name, logfile, expr_cbks, nreg, lastGot, nput>>

\* LineReader.run, lines 239-243: readline_func returns None or raises, and
\* the loop ends.
ReaderEnd(r) ==
    /\ rpc[r] = "read"
    /\ rpc' = [rpc EXCEPT ![r] = "ended"]
    /\ lastRead' = NoLine
    /\ UNCHANGED <<name, logfile, nread, cur, expr_cbks, nreg, diter, snap,
                   invoked, lastGot>>

\* LineReader.run, line 264: the for loop asks the dict iterator for its next
\* key.  The iterator raises RuntimeError when the dict has changed size,
\* and the loop is over when there is no further key.
DispatchKey(r) ==
    /\ rpc[r] = "dispatch"
    /\ diter[r].ci = 0
    /\ IF Len(expr_cbks[r]) # diter[r].size
       THEN /\ rpc' = [rpc EXCEPT ![r] = "dead"]
            /\ diter' = [diter EXCEPT ![r] = NoIter]
            /\ cur' = cur
       ELSE IF diter[r].ki > Len(expr_cbks[r])
       THEN /\ rpc' = [rpc EXCEPT ![r] = "read"]
            /\ diter' = [diter EXCEPT ![r] = NoIter]
            /\ cur' = [cur EXCEPT ![r] = <<>>]
       ELSE /\ rpc' = rpc
            /\ diter' = [diter EXCEPT ![r].ci = 1]
            /\ cur' = cur
    /\ lastRead' = NoLine
    /\ UNCHANGED <<name, logfile, nread, expr_cbks, nreg, snap, invoked, lastGot>>

\* LineReader.run, lines 265-267: the inner loop takes the next callback of
\* the key, calls it if the line matches the key, and the callback returns
\* or raises; with no further callback the inner loop is over.
DispatchCbk(r, raises) ==
    LET key == expr_cbks[r][diter[r].ki]
        ci == diter[r].ci
    IN  /\ rpc[r] = "dispatch"
        /\ ci > 0
        /\ IF ci > Len(key.cbks)
           THEN /\ ~raises
                /\ diter' = [diter EXCEPT ![r].ki = @ + 1, ![r].ci = 0]
                /\ UNCHANGED <<rpc, invoked>>
           ELSE IF CheckMsg(cur[r], key.expr, key.regex)
           THEN /\ invoked' = [invoked EXCEPT ![r] = Append(@, key.cbks[ci])]
                /\ IF raises
                   THEN rpc' = [rpc EXCEPT ![r] = "dead"]
                        /\ diter' = [diter EXCEPT ![r] = NoIter]
                   ELSE rpc' = rpc /\ diter' = [diter EXCEPT ![r].ci = ci + 1]
           ELSE /\ ~raises
                /\ diter' = [diter EXCEPT ![r].ci = ci + 1]
                /\ UNCHANGED <<rpc, invoked>>
        /\ lastRead' = NoLine
        /\ UNCHANGED <<name, logfile, nread, cur, expr_cbks, nreg, snap, lastGot>>

KeyIndex(d, expr, regex) ==
    IF \E i \in 1..Len(d) : d[i].expr = expr /\ d[i].regex = regex
    THEN CHOOSE i \in 1..Len(d) : d[i].expr = expr /\ d[i].regex = regex
    ELSE 0

\* A registration that puts the new callback first in its key's list.
DictAddFirst(d, expr, regex, cbk) ==
    LET i == KeyIndex(d, expr, regex)
    IN  IF i = 0 THEN Append(d, [expr |-> expr, regex |-> regex, cbks |-> <<cbk>>])
        ELSE [d EXCEPT ![i].cbks = <<cbk>> \o @]

\* self._expr_cbks[(expr, regex)].append(cbk), line 270: a key that is not
\* yet in the defaultdict is added after the others.
DictAdd(d, expr, regex, cbk) ==
    LET i == KeyIndex(d, expr, regex)
    IN  IF i = 0 THEN Append(d, [expr |-> expr, regex |-> regex, cbks |-> <<cbk>>])
        ELSE [d EXCEPT ![i].cbks = Append(@, cbk)]

\* LineReader.add_expr_cbk (lines 269-270), called from any thread.
AddExprCbk(r, expr, regex) ==
    /\ nreg < MaxCbks
    /\ nreg' = nreg + 1
    /\ expr_cbks' = [expr_cbks EXCEPT ![r] = DictAdd(@, expr, regex, nreg + 1)]
    /\ lastRead' = NoLine
    /\ UNCHANGED <<name, logfile, rpc, nread, cur, diter, snap, invoked, lastGot>>

\* The line a get returned is noted.
NoteGot(c) ==
    /\ lastGot' = IF gres'.kind = "item"
                  THEN [lastGot EXCEPT ![gq'[c]][gres'.item.rd] = gres'.item.idx]
                  ELSE lastGot
    /\ lastRead' = NoLine
    /\ UNCHANGED <<name, logfile, rpc, nread, cur, expr_cbks, nreg, diter, snap,
                   invoked>>

\* LineReader.get_line (lines 312-313) of reader h, called by consumer c.
GetLine(c, h, block, tnone, timeout) ==
    GetEnter(c, QOf(h), block, tnone, timeout) /\ NoteGot(c)

\* LineReader.get_line of consumer c goes on after its wait.
GetLineWake(c) == GetWake(c) /\ NoteGot(c)

\* LineReader.clear_history (lines 290-291) of reader h.
ClearHistory(h) ==
    /\ Clear(QOf(h))
    /\ lastRead' = NoLine
    /\ UNCHANGED <<name, logfile, rpc, nread, cur, expr_cbks, nreg, diter, snap,
                   invoked, lastGot>>

\* A step that is not one of a reader thread or of add_expr_cbk.
ReadersIdle ==
    /\ lastRead' = NoLine
    /\ UNCHANGED <<name, logfile, rpc, nread, cur, expr_cbks, nreg, diter, snap,
                   invoked, lastGot>>

\* --------------------------------------------------------------- Console
\* One thread calls the Console: it is consumer Caller of the queue, and the
\* Console's line_reader (lines 38-44) is reader Con.
Caller == 1
Con == 1

NoEntry == Entry(0, 0, <<>>)

\* cmd of run_cmd: None, a callable, or a string.
NoCmd == [kind |-> "None", text |-> <<>>]
StrCmd(text) == [kind |-> "str", text |-> text]
CallableCmd == [kind |-> "callable", text |-> <<>>]

\* A call of the Console with its arguments; msgs is the list of line 108.
Call(op, func, cmd, msgs, timeout, regex, clear) ==
    [op |-> op, func |-> func, cmd |-> cmd, msgs |-> msgs, timeout |-> timeout,
     regex |-> regex, clear |-> clear]
NoCall == Call("none", "none", NoCmd, <<>>, 0, FALSE, FALSE)

\* What a call returns or raises.  "True": _expect returns True;
\* "Exception": _expect raises, its message made of func, cmd and msgs;
\* "return": run_sh_cmd_output returns (rc, out); "Timeout", "IndexError",
\* "ValueError": run_sh_cmd_output raises.
Outcome(kind, rc, out, func, cmd, msgs) ==
    [kind |-> kind, rc |-> rc, out |-> out, func |-> func, cmd |-> cmd, msgs |-> msgs]
NoOutcome == Outcome("none", 0, <<>>, "none", NoCmd, <<>>)
Raised(kind) == Outcome(kind, 0, <<>>, "none", NoCmd, <<>>)

\* No call of the Console was made yet.
ConsoleIdle ==
    /\ cpc = "idle"
    /\ cop = NoCall
    /\ budget = 0
    /\ rem = 0
    /\ checks = <<>>
    /\ cline = NoEntry
    /\ output = <<>>
    /\ cres = NoOutcome
    /\ written = <<>>
    /\ seen = <<>>
    /\ atCall = {}
    /\ skipped = {}
    /\ evicted = {}

\* The indices (in the stream of Con) of the lines in q.
Ids(q) == {q[i].idx : i \in DOMAIN q}

\* Console.run_cmd, lines 62-67: nothing for None, cmd() for a callable
\* (noted as "cmd()"), write(cmd) otherwise.
RunCmd(w, cmd) ==
    IF cmd.kind = "None" THEN w
    ELSE IF cmd.kind = "callable" THEN Append(w, <<"cmd()">>)
    ELSE Append(w, cmd.text)

\* lines 107-108: a str is taken as a list of one pattern.
MsgList(m) == IF m.isstr THEN <<m.val>> ELSE m.val

\* An _expect that leaves the queued history alone.
ExpectCallNoClear(func, cmd, m, timeout, regex, clear) ==
    /\ cpc = "idle"
    /\ rpc[Con] # "new"
    /\ cpc' = "run"
    /\ cop' = Call("expect", func, cmd, MsgList(m), timeout, regex, clear)
    /\ atCall' = Ids(queue[QOf(Con)])
    /\ QueuesIdle /\ ReadersIdle
    /\ UNCHANGED <<budget, rem, checks, cline, output, cres, written, seen,
                   skipped, evicted>>

\* Console.expect_any / expect_all (lines 113-117) call _expect, lines
\* 103-105: the call begins, and the history is cleared if clear_history.
ExpectCall(func, cmd, m, timeout, regex, clear) ==
    /\ cpc = "idle"
    /\ rpc[Con] # "new"
    /\ cpc' = "run"
    /\ cop' = Call("expect", func, cmd, MsgList(m), timeout, regex, clear)
    /\ atCall' = Ids(queue[QOf(Con)])
    /\ IF clear THEN ClearHistory(Con) ELSE QueuesIdle /\ ReadersIdle
    /\ UNCHANGED <<budget, rem, checks, cline, output, cres, written, seen,
                   skipped, evicted>>

\* _expect, lines 106-109, and read_cond, lines 273-274: the command is run,
\* then read_cond takes its start time and makes its checks.
ExpectRun ==
    /\ cpc = "run" /\ cop.op = "expect"
    /\ written' = RunCmd(written, cop.cmd)
    /\ budget' = cop.timeout
    /\ checks' = [i \in 1..Len(cop.msgs) |-> FALSE]
    /\ cpc' = "loop"
    /\ QueuesIdle /\ ReadersIdle
    /\ UNCHANGED <<cop, rem, cline, output, cres, seen, atCall, skipped, evicted>>

\* read_cond returns False (lines 277-278, 281-282, 288) and _expect raises
\* Exception(f"Failed expect {end_func.__name__}: {cmd}: {msgs}"), line 111.
ExpectFailed == Outcome("Exception", 0, <<>>, cop.func, cop.cmd, cop.msgs)

\* read_cond, lines 276-278: the time that remains is computed.
ReadCondLoop ==
    /\ cpc = "loop" /\ cop.op = "expect"
    /\ IF budget <= 0
       THEN cpc' = "done" /\ cres' = ExpectFailed /\ rem' = 0
       ELSE cpc' = "get" /\ cres' = cres /\ rem' = budget
    /\ QueuesIdle /\ ReadersIdle
    /\ UNCHANGED <<cop, budget, checks, cline, output, written, seen, atCall,
                   skipped, evicted>>

\* What the caller does with the outcome of its get: it holds the line, or
\* it ends with failure on Empty, or it is still waiting.
CallerGot(failure) ==
    /\ IF gres'.kind = "item"
       THEN /\ cpc' = "check"
            /\ cline' = gres'.item
            /\ seen' = Append(seen, gres'.item)
            /\ cres' = cres
       ELSE IF gres'.kind = "none"
       THEN cpc' = "wait" /\ UNCHANGED <<cline, seen, cres>>
       ELSE cpc' = "done" /\ cres' = failure /\ UNCHANGED <<cline, seen>>
    /\ rem' = 0
    /\ UNCHANGED <<cop, budget, checks, output, written, atCall, skipped, evicted>>

\* read_cond, lines 279-282: get_line(block=True, timeout=time_remaining).
ReadCondGet ==
    /\ cpc = "get" /\ cop.op = "expect"
    /\ GetLine(Caller, Con, TRUE, FALSE, rem)
    /\ CallerGot(ExpectFailed)

\* read_cond, lines 279-282: the get_line goes on after its wait.
ReadCondWake ==
    /\ cpc = "wait" /\ cop.op = "expect"
    /\ GetLineWake(Caller)
    /\ CallerGot(ExpectFailed)

\* A read_cond that forgets the matches of the lines before.
ChecksOfLineOnly(chk, text, exprs, regex) ==
    [i \in DOMAIN chk |-> CheckMsg(text, exprs[i], regex)]

\* read_cond, lines 283-285: the checks after the line text.
Checks(chk, text, exprs, regex) ==
    [i \in DOMAIN chk |-> chk[i] \/ CheckMsg(text, exprs[i], regex)]

\* A combinator that is all for any.
EndFuncAll(func, chk) == \A i \in DOMAIN chk : chk[i]

\* end_func(checks), line 286, for the built-ins any and all.
EndFunc(func, chk) ==
    IF func = "all" THEN \A i \in DOMAIN chk : chk[i] ELSE \E i \in DOMAIN chk : chk[i]

\* read_cond, lines 283-287, and _expect, lines 109-110: the line is
\* examined; the call returns True if end_func holds, or goes round the loop.
ReadCondCheck ==
    /\ cpc = "check" /\ cop.op = "expect"
    /\ checks' = Checks(checks, cline.text, cop.msgs, cop.regex)
    /\ IF EndFunc(cop.func, checks')
       THEN cpc' = "done" /\ cres' = Outcome("True", 0, <<>>, "none", NoCmd, <<>>)
       ELSE cpc' = "loop" /\ cres' = cres
    /\ cline' = NoEntry
    /\ QueuesIdle /\ ReadersIdle
    /\ UNCHANGED <<cop, budget, rem, output, written, seen, atCall, skipped, evicted>>

\* cmd_finish, line 72, and f"{cmd_finish}=", line 93.
Tag == <<"X", "T", "F", "_", "D", "O", "N", "E">>
TagEq == Tag \o <<"=">>

\* f"{cmd} ; echo {cmd_finish}=$?", line 75.
ShCommand(cmd) == cmd \o <<" ", ";", " ", "e", "c", "h", "o", " ">> \o TagEq \o <<"$", "?">>

\* The offsets at or after from at which sep occurs in s.
Offsets(s, sep, from) ==
    {off \in from..(Len(s) - Len(sep)) : \A i \in 1..Len(sep) : s[off + i] = sep[i]}
First(S) == CHOOSE x \in S : \A y \in S : x <= y

\* line.split(sep)[0] and line.split(sep)[1], for a line in which sep occurs.
Spl0(s, sep) == SubSeq(s, 1, First(Offsets(s, sep, 0)))
Spl1(s, sep) ==
    LET from == First(Offsets(s, sep, 0)) + Len(sep)
        next == Offsets(s, sep, from)
    IN  SubSeq(s, from + 1, IF next = {} THEN Len(s) ELSE First(next))

Digits == <<"0", "1", "2", "3", "4", "5", "6", "7", "8", "9">>
DigitVal(ch) == (CHOOSE d \in DOMAIN Digits : Digits[d] = ch) - 1
Unsigned(s) == IF s # <<>> /\ Head(s) \in {"+", "-"} THEN Tail(s) ELSE s

\* int(s) returns: s is, spaces at its ends aside, a sign or none and then digits.
IsInt(s) ==
    LET u == Unsigned(Strip(s))
    IN  u # <<>> /\ \A i \in DOMAIN u : \E d \in DOMAIN Digits : Digits[d] = u[i]

RECURSIVE Decimal(_)
Decimal(u) ==
    IF u = <<>> THEN 0 ELSE 10 * Decimal(SubSeq(u, 1, Len(u) - 1)) + DigitVal(u[Len(u)])

\* int(s), line 95.
IntOf(s) ==
    LET t == Strip(s)
    IN  IF t # <<>> /\ Head(t) = "-" THEN 0 - Decimal(Unsigned(t)) ELSE Decimal(Unsigned(t))

\* "\n".join(lines), line 96.
RECURSIVE Join(_)
Join(lines) ==
    IF lines = <<>> THEN <<>>
    ELSE IF Len(lines) = 1 THEN lines[1]
    ELSE lines[1] \o <<"\n">> \o Join(Tail(lines))

\* Console.run_sh_cmd_output, lines 70-74: the start time is taken and the
\* history cleared.
RunShCall(cmd, timeout) ==
    /\ cpc = "idle"
    /\ rpc[Con] # "new"
    /\ cpc' = "run"
    /\ cop' = Call("sh", "none", StrCmd(cmd), <<>>, timeout, FALSE, TRUE)
    /\ atCall' = Ids(queue[QOf(Con)])
    /\ budget' = timeout
    /\ ClearHistory(Con)
    /\ UNCHANGED <<rem, checks, cline, output, cres, written, seen, skipped, evicted>>

\* run_sh_cmd_output, lines 75-77: the command and the echo of its status
\* are written.
RunShWrite ==
    /\ cpc = "run" /\ cop.op = "sh"
    /\ written' = Append(written, ShCommand(cop.cmd.text))
    /\ output' = <<>>
    /\ cpc' = "loop"
    /\ QueuesIdle /\ ReadersIdle
    /\ UNCHANGED <<cop, budget, rem, checks, cline, cres, seen, atCall, skipped, evicted>>

\* Exception("Timed out waiting for command to finish"), lines 82 and 87.
ShTimeout == Raised("Timeout")

\* A run_sh_cmd_output that reads with the whole timeout of the call, and
\* not with what remains of it: no check of the time before the read.
RunShLoopNoDeadline ==
    /\ cpc = "loop" /\ cop.op = "sh"
    /\ cpc' = "get" /\ cres' = cres /\ rem' = cop.timeout /\ output' = output
    /\ QueuesIdle /\ ReadersIdle
    /\ UNCHANGED <<cop, budget, checks, cline, written, seen, atCall, skipped, evicted>>

\* run_sh_cmd_output, lines 79-82: the time that remains is computed.
RunShLoop ==
    /\ cpc = "loop" /\ cop.op = "sh"
    /\ IF budget <= 0
       THEN cpc' = "done" /\ cres' = ShTimeout /\ rem' = 0 /\ output' = <<>>
       ELSE cpc' = "get" /\ cres' = cres /\ rem' = budget /\ output' = output
    /\ QueuesIdle /\ ReadersIdle
    /\ UNCHANGED <<cop, budget, checks, cline, written, seen, atCall, skipped, evicted>>

\* run_sh_cmd_output, lines 84-87: readline(block=True, timeout=remaining),
\* which is get_line (lines 54-56).
RunShGet ==
    /\ cpc = "get" /\ cop.op = "sh"
    /\ GetLine(Caller, Con, TRUE, FALSE, rem)
    /\ CallerGot(ShTimeout)

\* run_sh_cmd_output, lines 84-87: the readline goes on after its wait.
RunShWake ==
    /\ cpc = "wait" /\ cop.op = "sh"
    /\ GetLineWake(Caller)
    /\ CallerGot(ShTimeout)

\* run_sh_cmd_output, lines 89-98: the line is examined.  A line with the
\* tag and cmd in it is passed over; any other line with the tag ends the
\* call: with the status and the output, or with the exception of spl[1]
\* or of int; any other line is output.
RunShCheck ==
    LET line == cline.text
    IN  /\ cpc = "check" /\ cop.op = "sh"
        /\ IF Contains(line, Tag) /\ Contains(line, cop.cmd.text)
           THEN cpc' = "loop" /\ UNCHANGED <<cres, output>>
           ELSE IF Contains(line, Tag)
           THEN /\ cpc' = "done"
                /\ output' = <<>>
                /\ cres' = IF ~Contains(line, TagEq) THEN Raised("IndexError")
                           ELSE IF ~IsInt(Spl1(line, TagEq)) THEN Raised("ValueError")
                           ELSE Outcome("return", IntOf(Spl1(line, TagEq)),
                                        Strip(Join(Append(output, Spl0(line, TagEq)))),
                                        "none", NoCmd, <<>>)
           ELSE cpc' = "loop" /\ output' = Append(output, line) /\ cres' = cres
        /\ cline' = NoEntry
        /\ QueuesIdle /\ ReadersIdle
        /\ UNCHANGED <<cop, budget, rem, checks, written, seen, atCall, skipped, evicted>>

\* LineReader.run of the Console's reader reads the next line; while a call
\* is running it is noted whether the line was put into the queue and
\* whether the put dropped one.
ConsoleRead(raw, wr) ==
    /\ nread[Con] < ConsoleLines
    /\ ReaderRead(Con, raw, wr)
    /\ IF cpc \in {"idle", "done"}
       THEN UNCHANGED <<skipped, evicted>>
       ELSE /\ skipped' = skipped \cup ({nread'[Con]} \ Ids(queue'[QOf(Con)]))
            /\ evicted' = evicted \cup (Ids(queue[QOf(Con)]) \ Ids(queue'[QOf(Con)]))
    /\ UNCHANGED <<cpc, cop, budget, rem, checks, cline, output, cres, written,
                   seen, atCall>>

\* Any other step of the reader thread.
ConsoleReader ==
    /\ ReaderStart(Con) \/ ReaderEnd(Con) \/ DispatchKey(Con)
    /\ QueuesIdle
    /\ UNCHANGED cvars

\* Time passes: one tick for the get that waits and for the call's budget.
CallRunning == cpc \notin {"idle", "done"} /\ budget > 0

Tick ==
    /\ TimersRunning \/ CallRunning
    /\ TickTimers
    /\ budget' = IF CallRunning THEN budget - 1 ELSE budget
    /\ gres' = NoResult
    /\ UNCHANGED <<max_size, queue, waiters, nput, gpc, gq, gblock, notified,
                   putDuring, otherRemoved, sinceMark>>
    /\ ReadersIdle
    /\ UNCHANGED <<cpc, cop, rem, checks, cline, output, cres, written, seen,
                   atCall, skipped, evicted>>

\* ------------------------------------------------------------ Environment
\* The backends: NoopEnvironment (noop.py), BwrapEnvironment (bwrap.py),
\* DockerEnvironment of itf.core (environment/docker_env.py) and
\* DockerEnvironment of sctf (sctf/environment/docker_env.py).
Backends == {"noop", "bwrap", "docker", "sctf"}
Tracking == {"noop", "bwrap"}
Handles == 1..MaxHandles

\* Optional[int]: None, and the int c.
None == <<>>
Some(c) == <<c>>

\* What a process exits with by itself, and what it ends with under the
\* graceful signal and under the kill.
ExitCodes == {0, 1}
TermCode == 0 - 15
KillCode == 0 - 9

\* The variables of the processes, of the handles and of the calls.
procvars == <<pst, pcode, psig, cst, ccode, csig, stubborn, thr>>
handlevars == <<handles, made, child, exit_code>>
stopvars == <<spc, sarg, stimer, sres, gterm, gkill, nstops, first>>
tdvars == <<tpc, tlist, tseen, tfailed>>
execvars == <<eres, spawned>>
confvars == <<backend, env_timeout>>

\* psutil.Process.is_running of handle.parent: true of a process that runs
\* or has ended with its code not collected, false once it is collected.
ParentIsRunning(h) == pst[h] \in {"run", "exited"}

\* psutil.Process.is_running of handle.child, a process of the supervisor.
ChildIsRunning(h) == cst[h] = "run"

\* exec_inspect(handle.parent)["Running"].
ExecRunning(h) == pst[h] = "run"

\* What the path given to execute is on the host: an executable file, no
\* file at all, a directory, or a file without the execute permission.
PathKinds == {"exec", "missing", "dir", "noexec"}

\* os.path.isfile(path) and os.access(path, os.X_OK).
IsExecutable(kind) == kind = "exec"

\* os.chmod(sandboxed, stat.S_IXOTH): it raises when the path is missing, and
\* when the caller does not own the file (owned = FALSE).
ChmodRaises(kind, owned) == kind = "missing" \/ ~owned

\* BwrapEnvironment._check_binary_path: TRUE if it returns, FALSE if it
\* raises RuntimeError("File is not a valid executable").
CheckBinaryPath(kind, owned) == IsExecutable(kind) \/ ~ChmodRaises(kind, owned)

\* The check execute makes of path before it spawns: the backends with a
\* container leave it to the runtime.
PathAccepted(kind, owned) ==
    IF backend = "noop" THEN IsExecutable(kind)
    ELSE IF backend = "bwrap" THEN CheckBinaryPath(kind, owned)
    ELSE TRUE

\* How an execute ended: the path it was given, whether it returned a handle
\* or raised, and whether os.chmod was called.
ExecResult(kind, out, chmod) == [path |-> kind, out |-> out, chmod |-> chmod]

\* The caller is in no call of the Environment.
CallerFree == spc \in {"idle", "done"} /\ tpc = "idle"

\* _find_application, as execute sees it: "found" (a child is returned),
\* "finished" (parent.poll() is not None: None is returned, the code of the
\* supervisor c is collected) or "unfound" (it raises with the supervisor
\* running, and execute goes on with no child).
Discoveries == {"found", "finished", "unfound"}

\* Environment.execute(path, ...) returning handle h.  ign: the target
\* ignores the graceful signal.
Execute(h, kind, owned, found, c, ign) ==
    /\ CallerFree
    /\ ~made[h] /\ \A g \in Handles : g < h => made[g]
    /\ IF ~PathAccepted(kind, owned)
       THEN /\ eres' = ExecResult(kind, "RuntimeError", backend = "bwrap")
            /\ UNCHANGED <<spawned, handlevars, procvars>>
       ELSE /\ eres' = ExecResult(kind, "handle",
                                  backend = "bwrap" /\ ~IsExecutable(kind))
            /\ spawned' = spawned + 1
            /\ made' = [made EXCEPT ![h] = TRUE]
            /\ handles' = IF backend \in Tracking THEN Append(handles, h) ELSE handles
            /\ stubborn' = [stubborn EXCEPT ![h] = ign]
            /\ thr' = [thr EXCEPT ![h] = IF backend = "docker" THEN "none" ELSE "alive"]
            /\ UNCHANGED <<exit_code, psig, csig>>
            /\ IF backend = "bwrap"
               THEN /\ child' = [child EXCEPT ![h] = (found = "found")]
                    /\ cst' = [cst EXCEPT ![h] = IF found = "found" THEN "run" ELSE "none"]
                    /\ pst' = [pst EXCEPT ![h] = IF found = "finished" THEN "gone" ELSE "run"]
                    /\ pcode' = [pcode EXCEPT ![h] = IF found = "finished" THEN c ELSE 0]
                    /\ UNCHANGED ccode
               ELSE /\ child' = [child EXCEPT ![h] = (backend = "noop")]
                    /\ pst' = [pst EXCEPT ![h] = "run"]
                    /\ UNCHANGED <<pcode, cst, ccode>>
    /\ UNCHANGED <<confvars, stopvars, tdvars>>

\* One step of the processes and threads, not of the caller:
\*  - the target exits by itself with code c;
\*  - a signal acts: the graceful one on a target that does not ignore it,
\*    the kill on any process;
\*  - the supervisor exits once its target is gone, with the target's code;
\*  - the output-reader threads of a process that has ended finish.
ProcessStep(h, c) ==
    /\ made[h]
    /\ \/ /\ backend = "bwrap" /\ cst[h] = "run"
          /\ \/ ccode' = [ccode EXCEPT ![h] = c]
             \/ csig[h] = "kill" /\ ccode' = [ccode EXCEPT ![h] = KillCode]
             \/ csig[h] = "term" /\ ~stubborn[h] /\ ccode' = [ccode EXCEPT ![h] = TermCode]
          /\ cst' = [cst EXCEPT ![h] = "gone"]
          /\ csig' = [csig EXCEPT ![h] = "none"]
          /\ UNCHANGED <<pst, pcode, psig, thr>>
       \/ /\ backend = "bwrap" /\ pst[h] = "run" /\ cst[h] # "run"
          /\ \/ cst[h] = "gone" /\ pcode' = [pcode EXCEPT ![h] = ccode[h]]
             \/ psig[h] = "kill" /\ pcode' = [pcode EXCEPT ![h] = KillCode]
             \/ psig[h] = "term" /\ pcode' = [pcode EXCEPT ![h] = TermCode]
          /\ pst' = [pst EXCEPT ![h] = "exited"]
          /\ psig' = [psig EXCEPT ![h] = "none"]
          /\ UNCHANGED <<cst, ccode, csig, thr>>
       \/ /\ backend # "bwrap" /\ pst[h] = "run"
          /\ \/ pcode' = [pcode EXCEPT ![h] = c]
             \/ psig[h] = "kill" /\ pcode' = [pcode EXCEPT ![h] = KillCode]
             \/ psig[h] = "term" /\ ~stubborn[h] /\ pcode' = [pcode EXCEPT ![h] = TermCode]
          /\ pst' = [pst EXCEPT ![h] = "exited"]
          /\ psig' = [psig EXCEPT ![h] = "none"]
          /\ UNCHANGED <<cst, ccode, csig, thr>>
       \/ /\ thr[h] = "alive" /\ pst[h] # "run"
          /\ thr' = [thr EXCEPT ![h] = "done"]
          /\ UNCHANGED <<pst, pcode, psig, cst, ccode, csig>>
    /\ UNCHANGED <<stubborn, confvars, handlevars, stopvars, tdvars, execvars>>

\* ---------------------------------------------------------- stop_process
\* The waits of stop_process, in ticks of one second: child.wait(1) in
\* range(5) (bwrap.py), thread.join(timeout=5), the wait of 5 after the kill
\* in a container, and the join with timeout=2.0 after it (sctf).
ChildWaits == 5
ChildWait == 1
JoinTimeout == 5
KillWait == 5
KilledJoinTimeout == 2

StopArg(h, timeout, code, td) == [h |-> h, timeout |-> timeout, code |-> code, td |-> td]
StopResult(kind, code) == [kind |-> kind, code |-> code]

\* stop_process(handle, timeout) is called; tnone: timeout is None, and
\* self._timeout is taken.  td: the call is made by teardown.
StopBegin(h, tnone, timeout, td) ==
    /\ made[h]
    /\ spc' = "enter"
    /\ sarg' = StopArg(h, IF tnone THEN env_timeout ELSE timeout, None, td)
    /\ stimer' = 0
    /\ sres' = StopResult("none", 0)
    /\ gterm' = 0 - 1
    /\ gkill' = 0 - 2
    /\ UNCHANGED <<nstops, first, confvars, handlevars, procvars, execvars>>

\* The signal sig is sent to a process in state st with sig0 pending.
Signalled(st, sig0, sig) == IF st = "run" /\ sig0 # "kill" THEN sig ELSE sig0

\* stop_process raises exc: nothing of the handle is changed.
StopRaise(exc) ==
    /\ spc' = "done"
    /\ sres' = StopResult(exc, 0)
    /\ stimer' = 0
    /\ UNCHANGED <<sarg, nstops, first, handlevars>>

\* stop_process returns code c.
StopReturn(c) ==
    /\ spc' = "done"
    /\ sres' = StopResult("return", c)
    /\ stimer' = 0
    /\ nstops' = [nstops EXCEPT ![sarg.h] = IF @ < MaxStops THEN @ + 1 ELSE @]
    /\ first' = [first EXCEPT ![sarg.h] = IF nstops[sarg.h] = 0 THEN c ELSE @]

\* A stop_process that returns and leaves the handle in _handles.
StopFinishKeep(c) ==
    /\ StopReturn(c)
    /\ exit_code' = [exit_code EXCEPT ![sarg.h] = Some(c)]
    /\ UNCHANGED <<sarg, handles, made, child>>

\* stop_process of noop.py and bwrap.py, after the joins: handle.exit_code is
\* set, the handle is removed from _handles, the code is returned.
StopFinish(c) ==
    /\ StopReturn(c)
    /\ exit_code' = [exit_code EXCEPT ![sarg.h] = Some(c)]
    /\ handles' = SelectSeq(handles, LAMBDA g : g # sarg.h)
    /\ UNCHANGED <<sarg, made, child>>

\* The exit code c is in hand: the joins of the output threads come next
\* (none in itf.core's DockerEnvironment, which returns at once; sctf sets
\* handle.exit_code before its one join).
StopJoins(c, killed) ==
    IF backend = "docker"
    THEN /\ StopReturn(c)
         /\ exit_code' = [exit_code EXCEPT ![sarg.h] = Some(c)]
         /\ UNCHANGED <<sarg, handles, made, child>>
    ELSE /\ spc' = IF backend = "sctf" THEN "join1" ELSE "join2"
         /\ sarg' = [sarg EXCEPT !.code = Some(c)]
         /\ stimer' = IF backend = "sctf" /\ killed THEN KilledJoinTimeout ELSE JoinTimeout
         /\ exit_code' = IF backend = "sctf"
                         THEN [exit_code EXCEPT ![sarg.h] = Some(c)] ELSE exit_code
         /\ UNCHANGED <<sres, nstops, first, handles, made, child>>

\* A step of stop_process that goes to pc with a wait of t ticks.
StopGoto(pc, t) ==
    /\ spc' = pc
    /\ stimer' = t
    /\ UNCHANGED <<sarg, sres, nstops, first, handlevars>>

\* The code of handle.parent is collected by its wait.
Reaped == pst' = [pst EXCEPT ![sarg.h] = "gone"]

\* stop_process, from its call to its first wait:
\*  noop.py 104-113: a process that is not running has its code collected
\*    by wait(timeout=0); any other is sent terminate();
\*  bwrap.py 157-163, 339-344, 351-358 and 360-365: with a child, the child
\*    is sent terminate(), or NoSuchProcess is caught and the wait for the
\*    parent comes next; with no child, the parent is sent terminate(), and
\*    its NoSuchProcess is raised to the caller;
\*  docker_env.py 275-279 and wait_exec: the deadline of the poll is set.
StopEnter ==
    LET h == sarg.h
    IN  /\ spc = "enter"
        /\ IF backend = "noop" /\ ~ParentIsRunning(h)
           THEN StopJoins(pcode[h], FALSE) /\ UNCHANGED <<procvars, gterm, gkill>>
           ELSE IF backend = "bwrap" /\ child[h] /\ ~ChildIsRunning(h)
           THEN StopGoto("pwait", sarg.timeout) /\ UNCHANGED <<procvars, gterm, gkill>>
           ELSE IF backend = "bwrap" /\ child[h]
           THEN /\ csig' = [csig EXCEPT ![h] = Signalled(cst[h], @, "term")]
                /\ gterm' = 0
                /\ StopGoto("cwait", ChildWaits * ChildWait)
                /\ UNCHANGED <<pst, pcode, psig, cst, ccode, stubborn, thr, gkill>>
           ELSE IF backend = "bwrap" /\ pst[h] = "gone"
           THEN StopRaise("NoSuchProcess") /\ UNCHANGED <<procvars, gterm, gkill>>
           ELSE IF backend \in {"noop", "bwrap"}
           THEN /\ psig' = [psig EXCEPT ![h] = Signalled(pst[h], @, "term")]
                /\ gterm' = 0
                /\ StopGoto("wait", sarg.timeout)
                /\ UNCHANGED <<pst, pcode, cst, ccode, csig, stubborn, thr, gkill>>
           ELSE StopGoto("poll", sarg.timeout) /\ UNCHANGED <<procvars, gterm, gkill>>
        /\ UNCHANGED <<confvars, tdvars, execvars>>

\* The kill is sent by this stop_process: it is noted how long after the
\* graceful request.
KillNoted == gkill' = gterm /\ UNCHANGED gterm

\* noop.py 113-118 and bwrap.py _stop_parent 365-369: proc.wait(timeout)
\* returns the code, or raises TimeoutExpired and kill() is sent.
StopWait ==
    LET h == sarg.h
    IN  /\ spc = "wait"
        /\ IF pst[h] = "exited"
           THEN /\ Reaped /\ StopJoins(pcode[h], FALSE)
                /\ UNCHANGED <<pcode, psig, cst, ccode, csig, stubborn, thr, gterm, gkill>>
           ELSE /\ pst[h] = "run" /\ stimer = 0
                /\ psig' = [psig EXCEPT ![h] = "kill"]
                /\ KillNoted
                /\ StopGoto("waitk", 0)
                /\ UNCHANGED <<pst, pcode, cst, ccode, csig, stubborn, thr>>
        /\ UNCHANGED <<confvars, tdvars, execvars>>

\* noop.py 118 and bwrap.py 369: proc.wait() after the kill.
StopWaitKilled ==
    LET h == sarg.h
    IN  /\ spc = "waitk"
        /\ pst[h] = "exited"
        /\ Reaped /\ StopJoins(pcode[h], TRUE)
        /\ UNCHANGED <<pcode, psig, cst, ccode, csig, stubborn, thr, gterm, gkill>>
        /\ UNCHANGED <<confvars, tdvars, execvars>>

\* The child that is_running() is sent kill() with none of the waits.
StopChildWaitNoGrace ==
    LET h == sarg.h
    IN  /\ spc = "cwait"
        /\ IF ~ChildIsRunning(h)
           THEN StopGoto("pwait", sarg.timeout) /\ UNCHANGED <<procvars, gterm, gkill>>
           ELSE /\ csig' = [csig EXCEPT ![h] = "kill"]
                /\ KillNoted
                /\ StopGoto("ckwait", 0)
                /\ UNCHANGED <<pst, pcode, psig, cst, ccode, stubborn, thr>>
        /\ UNCHANGED <<confvars, tdvars, execvars>>

\* bwrap.py _stop_child 345-357: child.wait(1) in range(5); the child that
\* still is_running() after them is sent kill().
StopChildWait ==
    LET h == sarg.h
    IN  /\ spc = "cwait"
        /\ IF ~ChildIsRunning(h)
           THEN StopGoto("pwait", sarg.timeout) /\ UNCHANGED <<procvars, gterm, gkill>>
           ELSE /\ stimer = 0
                /\ csig' = [csig EXCEPT ![h] = "kill"]
                /\ KillNoted
                /\ StopGoto("ckwait", 0)
                /\ UNCHANGED <<pst, pcode, psig, cst, ccode, stubborn, thr>>
        /\ UNCHANGED <<confvars, tdvars, execvars>>

\* bwrap.py 357: child.wait() after the kill.
StopChildWaitKilled ==
    /\ spc = "ckwait"
    /\ ~ChildIsRunning(sarg.h)
    /\ StopGoto("pwait", sarg.timeout)
    /\ UNCHANGED <<procvars, gterm, gkill, confvars, tdvars, execvars>>

\* bwrap.py 358: return parent.wait(timeout), whose TimeoutExpired nothing
\* catches.
StopParentWait ==
    LET h == sarg.h
    IN  /\ spc = "pwait"
        /\ IF pst[h] \in {"exited", "gone"}
           THEN /\ Reaped /\ StopJoins(pcode[h], FALSE)
                /\ UNCHANGED <<pcode, psig, cst, ccode, csig, stubborn, thr>>
           ELSE /\ stimer = 0
                /\ StopRaise("TimeoutExpired")
                /\ UNCHANGED procvars
        /\ UNCHANGED <<gterm, gkill, confvars, tdvars, execvars>>

\* A join with no timeout: it ends when the thread ends.
StopJoinUnbounded ==
    /\ spc \in {"join2", "join1"}
    /\ thr[sarg.h] # "alive"
    /\ IF spc = "join2"
       THEN StopGoto("join1", JoinTimeout)
       ELSE IF backend = "sctf"
       THEN StopReturn(sarg.code[1]) /\ UNCHANGED <<sarg, handlevars>>
       ELSE StopFinish(sarg.code[1])
    /\ UNCHANGED <<procvars, gterm, gkill, confvars, tdvars, execvars>>

\* noop.py 120-128, bwrap.py 165-173, sctf docker_env.py 206-207, 212-213
\* and 224-229: thread.join(timeout=...) returns when the thread has ended or
\* the timeout has run out; after the last join the call returns.
StopJoin ==
    /\ spc \in {"join2", "join1"}
    /\ thr[sarg.h] # "alive" \/ stimer = 0
    /\ IF spc = "join2"
       THEN StopGoto("join1", JoinTimeout)
       ELSE IF backend = "sctf"
       THEN StopReturn(sarg.code[1]) /\ UNCHANGED <<sarg, handlevars>>
       ELSE StopFinish(sarg.code[1])
    /\ UNCHANGED <<procvars, gterm, gkill, confvars, tdvars, execvars>>

\* docker_env.py 280-294 and docker.py wait_exec 266-272, kill_exec 283-289:
\* the exec is polled until the deadline; an exec seen not Running gives its
\* ExitCode; at the deadline "kill -9 Pid" is run in the container if the
\* runtime gives the Pid (pid).
StopPoll(pid) ==
    LET h == sarg.h
    IN  /\ spc = "poll"
        /\ IF stimer > 0
           THEN /\ ~ExecRunning(h)
                /\ StopJoins(pcode[h], FALSE)
                /\ UNCHANGED <<procvars, gterm, gkill>>
           ELSE /\ StopGoto("kpoll", KillWait)
                /\ IF pid /\ ExecRunning(h)
                   THEN psig' = [psig EXCEPT ![h] = "kill"] /\ KillNoted
                   ELSE UNCHANGED <<psig, gterm, gkill>>
                /\ UNCHANGED <<pst, pcode, cst, ccode, csig, stubborn, thr>>
        /\ UNCHANGED <<confvars, tdvars, execvars>>

\* The sentinel of a kill whose exit code could not be read.
Sentinel == 0 - 9

\* The short poll without the sentinel: the ExitCode of an exec still
\* Running, None, is stored and returned.
StopKillPollNoSentinel ==
    LET h == sarg.h
    IN  /\ spc = "kpoll"
        /\ IF ~ExecRunning(h)
           THEN StopJoins(pcode[h], TRUE)
           ELSE /\ stimer = 0
                /\ spc' = "done"
                /\ sres' = StopResult("None", 0)
                /\ stimer' = 0
                /\ exit_code' = [exit_code EXCEPT ![h] = None]
                /\ UNCHANGED <<sarg, nstops, first, handles, made, child>>
        /\ UNCHANGED <<procvars, gterm, gkill, confvars, tdvars, execvars>>

\* docker_env.py 297-307 and docker.py 292-293: the exec is polled for 5
\* seconds more; an exec still Running then has ExitCode None, and -9 is
\* reported.
StopKillPoll ==
    LET h == sarg.h
    IN  /\ spc = "kpoll"
        /\ IF ~ExecRunning(h)
           THEN StopJoins(pcode[h], TRUE)
           ELSE stimer = 0 /\ StopJoins(Sentinel, TRUE)
        /\ UNCHANGED <<procvars, gterm, gkill, confvars, tdvars, execvars>>

\* is_process_running(handle): noop.py 130-133, bwrap.py 175-180,
\* docker_env.py 309-316, sctf docker_env.py 231-236.
IsProcessRunning(h) ==
    IF backend = "noop" THEN ParentIsRunning(h)
    ELSE IF backend = "bwrap"
    THEN IF child[h] THEN ChildIsRunning(h) ELSE ParentIsRunning(h)
    ELSE IF backend = "docker" THEN ExecRunning(h)
    ELSE exit_code[h] = None /\ ExecRunning(h)

\* The waits of stop_process that a timeout bounds.
TimedWait == spc \in {"wait", "cwait", "pwait", "join2", "join1", "poll", "kpoll"}

\* Time passes: one tick of the wait stop_process is in.
StopTick ==
    /\ TimedWait /\ stimer > 0
    /\ stimer' = stimer - 1
    /\ gterm' = IF spc \in {"wait", "cwait"} THEN gterm + 1 ELSE gterm
    /\ UNCHANGED <<spc, sarg, sres, gkill, nstops, first>>
    /\ UNCHANGED <<confvars, handlevars, procvars, tdvars, execvars>>

\* --------------------------------------------------------------- teardown
\* teardown of noop.py (64-65) and bwrap.py (111-113): list(self._handles).
TeardownBegin ==
    /\ CallerFree
    /\ backend \in Tracking
    /\ tpc' = "loop"
    /\ tlist' = handles
    /\ tseen' = <<>>
    /\ tfailed' = {}
    /\ UNCHANGED <<confvars, handlevars, procvars, stopvars, execvars>>

\* teardown, noop.py 65-68 and 71, bwrap.py 113-116 and 119: the next handle
\* is passed over if is_process_running is false, or stop_process(h) is
\* called; after the last one _handles is cleared.
TeardownLoop ==
    /\ tpc = "loop"
    /\ IF tlist = <<>>
       THEN /\ tpc' = "done"
            /\ handles' = <<>>
            /\ UNCHANGED <<tlist, tseen, tfailed, made, child, exit_code, confvars,
                           procvars, stopvars, execvars>>
       ELSE IF IsProcessRunning(Head(tlist))
       THEN /\ tpc' = "stop"
            /\ StopBegin(Head(tlist), TRUE, 0, TRUE)
            /\ UNCHANGED <<tlist, tseen, tfailed>>
       ELSE /\ tlist' = Tail(tlist)
            /\ tseen' = Append(tseen, Head(tlist))
            /\ UNCHANGED <<tpc, tfailed, confvars, handlevars, procvars, stopvars, execvars>>

\* A teardown with no try around stop_process: what stop_process raises,
\* teardown raises.
TeardownStoppedNoTry ==
    /\ tpc = "stop" /\ spc = "done"
    /\ tlist' = Tail(tlist)
    /\ tseen' = Append(tseen, Head(tlist))
    /\ tfailed' = IF sres.kind = "return" THEN tfailed ELSE tfailed \cup {Head(tlist)}
    /\ tpc' = IF sres.kind = "return" THEN "loop" ELSE "raised"
    /\ UNCHANGED <<confvars, handlevars, procvars, stopvars, execvars>>

\* teardown, noop.py 66-70 and bwrap.py 114-118: the stop_process has
\* returned, or what it raised is caught and logged; the loop goes on.
TeardownStopped ==
    /\ tpc = "stop" /\ spc = "done"
    /\ tlist' = Tail(tlist)
    /\ tseen' = Append(tseen, Head(tlist))
    /\ tfailed' = IF sres.kind = "return" THEN tfailed ELSE tfailed \cup {Head(tlist)}
    /\ tpc' = "loop"
    /\ UNCHANGED <<confvars, handlevars, procvars, stopvars, execvars>>

\* An Environment as constructed, of one of the backends bs with a default
\* timeout of ts: it tracks no handle and is in no call.
EnvironmentInit(bs, ts) ==
    /\ backend \in bs
    /\ env_timeout \in ts
    /\ handles = <<>>
    /\ made = [h \in Handles |-> FALSE]
    /\ child = [h \in Handles |-> FALSE]
    /\ exit_code = [h \in Handles |-> None]
    /\ pst = [h \in Handles |-> "none"]
    /\ pcode = [h \in Handles |-> 0]
    /\ psig = [h \in Handles |-> "none"]
    /\ cst = [h \in Handles |-> "none"]
    /\ ccode = [h \in Handles |-> 0]
    /\ csig = [h \in Handles |-> "none"]
    /\ stubborn = [h \in Handles |-> FALSE]
    /\ thr = [h \in Handles |-> "none"]
    /\ spc = "idle"
    /\ sarg = StopArg(0, 0, None, FALSE)
    /\ stimer = 0
    /\ sres = StopResult("none", 0)
    /\ tpc = "idle"
    /\ tlist = <<>>
    /\ eres = ExecResult("exec", "none", FALSE)
    /\ spawned = 0
    /\ gterm = 0 - 1
    /\ gkill = 0 - 2
    /\ nstops = [h \in Handles |-> 0]
    /\ first = [h \in Handles |-> 0]
    /\ tseen = <<>>
    /\ tfailed = {}

\* No Environment is used in the run.
NoEnvironment == EnvironmentInit({"noop"}, {0})

\* ------------------------------------------- BwrapEnvironment: discovery
\* One execute of BwrapEnvironment in steps: the supervisor it has spawned,
\* the processes under the supervisor, and the attempts of _find_application.
\* The supervisor is process 0; the processes that can run under it are
\* Procs.
Procs == 1..MaxProcs

\* What psutil tells of a process under the supervisor: "target" (the
\* basename of exe() is the target's), "wrapped" (exe() is another file and
\* cmdline() holds "valgrind" and target_path), "other" (neither) and
\* "failing" (exe() raises: the process is a zombie or has just gone).
Kinds == {"target", "wrapped", "other", "failing"}

\* The trees: the parent of a process is the supervisor or a process with a
\* smaller number, and proc.children() lists the children by number.
Trees ==
    {t \in [Procs -> [par : 0..(MaxProcs - 1), kind : Kinds]] :
        \A p \in Procs : t[p].par < p}

\* The trees that are one chain: supervisor, 1, 2, ...
Chains == {t \in Trees : \A p \in Procs : t[p].par = p - 1}

\* proc.children(): the live processes whose parent is q, by number.
RECURSIVE Ascending(_)
Ascending(S) ==
    IF S = {} THEN <<>>
    ELSE LET m == CHOOSE x \in S : \A y \in S : x <= y
         IN <<m>> \o Ascending(S \ {m})

Children(t, alive, q) == Ascending({p \in alive : t[p].par = q})

\* What walk and _inner end with: None, a process, or an exception.
NoChild == [out |-> "none", proc |-> 0]
Found(p) == [out |-> "found", proc |-> p]
Raises == [out |-> "raised", proc |-> 0]

\* walk(proc) of _find_application, lines 319-328: WalkList is the for loop
\* over what is left of proc.children().
RECURSIVE Walk(_, _, _), WalkList(_, _, _), WalkListFirstBranch(_, _, _)
WalkListFirstBranch(t, alive, cs) ==
    IF cs = <<>> THEN NoChild
    ELSE LET c == Head(cs) IN
         IF t[c].kind = "failing" THEN Raises
         ELSE IF t[c].kind \in {"target", "wrapped"} THEN Found(c)
         ELSE IF Children(t, alive, c) # <<>> THEN Walk(t, alive, c)
         ELSE WalkListFirstBranch(t, alive, Tail(cs))

WalkList(t, alive, cs) ==
    IF cs = <<>> THEN NoChild
    ELSE LET c == Head(cs) IN
         IF t[c].kind = "failing" THEN Raises
         ELSE IF t[c].kind \in {"target", "wrapped"} THEN Found(c)
         ELSE LET found == Walk(t, alive, c) IN
              IF found # NoChild THEN found
              ELSE WalkList(t, alive, Tail(cs))

Walk(t, alive, q) == WalkList(t, alive, Children(t, alive, q))

\* psutil.Process.is_running of the supervisor, as ParentIsRunning.
SupervisorIsRunning == parent_proc \in {"run", "exited"}

\* The variables of the processes and of the call.
treevars == <<tree, live, parent_proc>>
findvars == <<fpc, attempt, result, raised, polled, walked>>
outvars == <<eout, hchild, hpid, tracked>>

\* execute, lines 125-139: the path is accepted, the supervisor is spawned
\* and the reader threads are started.
ExecuteSpawn ==
    /\ fpc = "idle"
    /\ fpc' = "walk"
    /\ parent_proc' = "run"
    /\ UNCHANGED <<tree, live, attempt, result, raised, polled, walked, outvars>>

\* An attempt of _inner has raised: tenacity makes the next one after
\* wait_fixed, or re-raises when stop_after_attempt(retry_count) says so.
AttemptFailed(n, exc) ==
    IF n >= RetryCount
    THEN fpc' = "except" /\ raised' = exc
    ELSE fpc' = "walk" /\ raised' = "none"

\* _inner, lines 330-332: result = walk(parent), returned if it is a process.
FindWalk ==
    /\ fpc = "walk"
    /\ attempt' = attempt + 1
    /\ walked' = Walk(tree, live, 0)
    /\ LET r == Walk(tree, live, 0) IN
       CASE r.out = "found" ->
                fpc' = "return" /\ result' = r /\ raised' = "none"
         [] r.out = "raised" ->
                AttemptFailed(attempt + 1, "NoSuchProcess") /\ result' = NoChild
         [] r.out = "none" ->
                fpc' = "poll" /\ result' = NoChild /\ raised' = "none"
    /\ UNCHANGED <<treevars, polled, outvars>>

\* find_process_in_tree(proc) of BwrapSandbox._find_application, sandbox.py
\* 146-158: FindInChildren is the for loop over what is left of
\* proc.children(); for a child that has children the loop returns what the
\* call on that child returns.
RECURSIVE FindProcessInTree(_, _, _), FindInChildren(_, _, _)
FindInChildren(t, alive, cs) ==
    IF cs = <<>> THEN NoChild
    ELSE LET c == Head(cs) IN
         IF t[c].kind = "failing" THEN Raises
         ELSE IF t[c].kind \in {"target", "wrapped"} THEN Found(c)
         ELSE IF Children(t, alive, c) # <<>> THEN FindProcessInTree(t, alive, c)
         ELSE FindInChildren(t, alive, Tail(cs))

FindProcessInTree(t, alive, q) == FindInChildren(t, alive, Children(t, alive, q))

\* BwrapSandbox._find_application, sandbox.py 160-162:
\* target_child = find_process_in_tree(target_process), returned if it is a
\* process.
SandboxFindWalk ==
    /\ fpc = "walk"
    /\ attempt' = attempt + 1
    /\ walked' = FindProcessInTree(tree, live, 0)
    /\ LET r == FindProcessInTree(tree, live, 0) IN
       CASE r.out = "found" ->
                fpc' = "return" /\ result' = r /\ raised' = "none"
         [] r.out = "raised" ->
                AttemptFailed(attempt + 1, "NoSuchProcess") /\ result' = NoChild
         [] r.out = "none" ->
                fpc' = "poll" /\ result' = NoChild /\ raised' = "none"
    /\ UNCHANGED <<treevars, polled, outvars>>

\* _inner, lines 333-335: parent.poll() collects the code of a supervisor
\* that has ended and None is returned; otherwise RuntimeError is raised.
FindPollNoFastExit ==
    /\ fpc = "poll"
    /\ parent_proc' = IF parent_proc = "exited" THEN "gone" ELSE parent_proc
    /\ polled' = IF parent_proc = "exited" THEN "ended" ELSE "alive"
    /\ AttemptFailed(attempt, "RuntimeError")
    /\ UNCHANGED <<tree, live, attempt, result, walked, outvars>>

FindPoll ==
    /\ fpc = "poll"
    /\ IF parent_proc = "exited"
       THEN /\ parent_proc' = "gone"
            /\ polled' = "ended"
            /\ fpc' = "return" /\ raised' = "none"
       ELSE /\ polled' = "alive"
            /\ AttemptFailed(attempt, "RuntimeError")
            /\ UNCHANGED parent_proc
    /\ UNCHANGED <<tree, live, attempt, result, walked, outvars>>

\* execute, lines 142-145: the exception of _find_application is raised
\* again if the supervisor is not running, and dropped otherwise.
ExecuteExceptAlwaysRaise ==
    /\ fpc = "except"
    /\ fpc' = "done" /\ eout' = "raised"
    /\ UNCHANGED <<treevars, attempt, result, raised, polled, walked, hchild, hpid, tracked>>

ExecuteExcept ==
    /\ fpc = "except"
    /\ IF ~SupervisorIsRunning
       THEN fpc' = "done" /\ eout' = "raised"
       ELSE fpc' = "return" /\ UNCHANGED eout
    /\ UNCHANGED <<treevars, attempt, result, raised, polled, walked, hchild, hpid, tracked>>

\* execute, lines 147-155: the handle is made, tracked and returned.
ExecuteReturn ==
    /\ fpc = "return"
    /\ fpc' = "done" /\ eout' = "handle"
    /\ hchild' = IF result.out = "found" THEN Some(result.proc) ELSE None
    /\ hpid' = IF result.out = "found" THEN Some(result.proc) ELSE None
    /\ tracked' = TRUE
    /\ UNCHANGED <<treevars, attempt, result, raised, polled, walked>>

\* The processes below q in the tree, q included.
RECURSIVE Below(_, _)
Below(t, q) == {q} \cup UNION {Below(t, p) : p \in {x \in Procs : t[x].par = q}}

\* The live descendants of the supervisor: proc.children() lists no process
\* whose parent has gone.
Descendants(t, alive) ==
    {p \in alive : \A q \in Procs : p \in Below(t, q) => q \in alive}

\* A process starts under the running supervisor or under a live process.
ProcStart(p) ==
    /\ fpc \notin {"idle", "done"}
    /\ parent_proc = "run"
    /\ p \notin live
    /\ tree[p].par = 0 \/ tree[p].par \in live
    /\ live' = live \cup {p}
    /\ UNCHANGED <<tree, parent_proc, findvars, outvars>>

\* A process ends, and with it the processes below it.
ProcExit(p) ==
    /\ fpc \notin {"idle", "done"}
    /\ p \in live
    /\ live' = live \ Below(tree, p)
    /\ UNCHANGED <<tree, parent_proc, findvars, outvars>>

\* The supervisor ends (--die-with-parent: so do the processes under it);
\* its code is not collected yet.
SupervisorExit ==
    /\ fpc \notin {"idle", "done"}
    /\ parent_proc = "run"
    /\ parent_proc' = "exited"
    /\ live' = {}
    /\ UNCHANGED <<tree, findvars, outvars>>

\* No execute has been made; the processes that will run are those of t.
DiscoveryInit(ts, ls) ==
    /\ tree \in ts
    /\ live \in ls
    /\ parent_proc = "none"
    /\ fpc = "idle"
    /\ attempt = 0
    /\ result = NoChild
    /\ raised = "none"
    /\ polled = "none"
    /\ walked = NoChild
    /\ eout = "none"
    /\ hchild = None
    /\ hpid = None
    /\ tracked = FALSE

NoTree == [p \in Procs |-> [par |-> 0, kind |-> "other"]]
NoDiscovery == DiscoveryInit({NoTree}, {{}})

\* ------------------------------------------------ setup and teardown
\* An Environment with the containers and the images of the runtime that are
\* its own.  setup and teardown are one action each; the runtime does what it
\* is asked, except that containers.run may fail.
Containers == 1..MaxSetups

\* DockerEnvironment.__init__, docker_env.py 114-128: image or sysroot is
\* given, or both.  The DockerEnvironment of sctf is given an image.
Configs ==
    {c \in [backend : Backends, image : BOOLEAN, sysroot : BOOLEAN] :
        /\ c.backend = "docker" => c.image \/ c.sysroot
        /\ c.backend = "sctf" => c.image /\ ~c.sysroot
        /\ c.backend \in Tracking => ~c.image /\ ~c.sysroot}

\* The variables of the object and of the runtime.
objvars == <<conf, image, tmp_image_tag, client, container>>
rtvars == <<up, nrun, images>>
callvars == <<nsetup, setup_res, last, imported, removed>>

\* _import_sysroot is called by setup: a sysroot and no image.
Imports == conf.backend = "docker" /\ conf.sysroot /\ image = "none"

\* setup(): noop.py and bwrap.py 108-109 do nothing; docker_env.py 186-222
\* takes the client, imports the sysroot if there is no image, and runs a
\* container; sctf docker_env.py 144-166 runs a container.  runs: the
\* runtime starts the container; it cannot without the image.
Setup(runs) ==
    /\ nsetup < MaxSetups
    /\ nsetup' = nsetup + 1
    /\ last' = "setup"
    /\ UNCHANGED <<conf, removed>>
    /\ IF conf.backend \in Tracking
       THEN /\ setup_res' = "returned"
            /\ UNCHANGED <<image, tmp_image_tag, client, container, rtvars, imported>>
       ELSE /\ client' = (client \/ conf.backend = "docker")
            /\ image' = IF Imports THEN "transient" ELSE image
            /\ tmp_image_tag' = IF Imports THEN "transient" ELSE tmp_image_tag
            /\ images' = IF Imports THEN images \cup {"transient"} ELSE images
            /\ imported' = (imported \/ Imports)
            /\ IF runs /\ image' \in images'
               THEN /\ nrun' = nrun + 1
                    /\ up' = up \cup {nrun + 1}
                    /\ container' = nrun + 1
                    /\ setup_res' = "returned"
               ELSE /\ UNCHANGED <<nrun, up, container>>
                    /\ setup_res' = "raised"

\* A teardown that removes the image the container was run from.
TeardownRemovesImage == IF client THEN image ELSE "none"

\* docker_env.py 233-238: the image teardown asks the runtime to remove,
\* "none" if it asks for none.
TeardownRemoves == IF client THEN tmp_image_tag ELSE "none"

\* teardown(): docker_env.py 224-238 stops self._container and removes the
\* image of self._tmp_image_tag, dropping the exception of either; sctf
\* docker_env.py 168-171 stops self._docker.
Teardown ==
    /\ last' = "teardown"
    /\ UNCHANGED <<conf, image, client, nrun, nsetup, setup_res, imported>>
    /\ IF conf.backend \in Tracking
       THEN UNCHANGED <<tmp_image_tag, container, up, images, removed>>
       ELSE /\ container' = 0
            /\ up' = up \ {container}
            /\ tmp_image_tag' = "none"
            /\ removed' = (removed \/ TeardownRemoves # "none")
            /\ images' = images \ {TeardownRemoves}

\* A container ends by itself and, started with auto_remove, is removed.
ContainerExit(c) ==
    /\ c \in up
    /\ up' = up \ {c}
    /\ UNCHANGED <<objvars, nrun, images, callvars>>

\* The Environment as constructed.
SetupInit(cs) ==
    /\ conf \in cs
    /\ image = IF conf.image THEN "caller" ELSE "none"
    /\ tmp_image_tag = "none"
    /\ client = FALSE
    /\ container = 0
    /\ up = {}
    /\ nrun = 0
    /\ images = IF conf.image THEN {"caller"} ELSE {}
    /\ nsetup = 0
    /\ setup_res = "none"
    /\ last = "none"
    /\ imported = FALSE
    /\ removed = FALSE

NoConfig == [backend |-> "noop", image |-> FALSE, sysroot |-> FALSE]
NoSetup == SetupInit({NoConfig})

\* ------------------------------------------------- copy_to and copy_from
\* The files of the host and of the environment.  A path is a directory
\* and a base name; what is at a path is a file with its content, a
\* directory with the content of its tree, or nothing.  The paths given to
\* copy_to and copy_from are of existing directories, and the path inside
\* the environment is none of the host paths used.
Names == {"hello.txt", "hello_back.txt", "data"}
Contents == {"hello from sctf", "other"}
HostPaths == {<<"/w", n>> : n \in Names}
EnvPaths == {<<"/tmp", n>> : n \in Names}
Dirname(path) == path[1]
Basename(path) == path[2]

Nothing == [kind |-> "none", data |-> ""]
FileOf(c) == [kind |-> "file", data |-> c]
TreeOf(c) == [kind |-> "dir", data |-> c]
Nodes == {FileOf(c) : c \in Contents} \cup {TreeOf(c) : c \in Contents}

\* The path copy_to is given on the host.
Src == <<"/w", "hello.txt">>

\* tarfile.add(path, arcname=arcname) and get_archive(path): the archive holds
\* what is at the path under arcname, a directory with the members below it.
Archive(arcname, node) == [name |-> arcname, node |-> node]

\* tar.extractall(path=dir), and put_archive(dir, tar): what the archive
\* holds is written at its name under dir.
Extracted(fs, dir, tar) == [fs EXCEPT ![<<dir, tar.name>>] = tar.node]

\* len(members) == 1 and not members[0].isdir(), docker.py 348-349.
SingleFile(tar) == tar.node.kind = "file"

\* shutil.copy2 and shutil.copytree(dirs_exist_ok=True) to a path at which
\* there is nothing: what is copied is at that path.
Copied(fs, path, node) == [fs EXCEPT ![path] = node]

\* copy_to(host_path, env_path) with host_path = Src: noop.py 139-144 and
\* bwrap.py 186-192 copy to env_path; docker_env.py 322-330 and docker.py
\* 318-330 add host_path to a tar under basename(env_path) and put the tar
\* at dirname(env_path).
CopyTo(p) ==
    /\ xpc = "start"
    /\ xpc' = "copied"
    /\ env_path' = p
    /\ inside' = IF copier \in Tracking
                 THEN Copied(inside, p, host[Src])
                 ELSE Extracted(inside, Dirname(p), Archive(Basename(p), host[Src]))
    /\ UNCHANGED <<copier, host, host_path, source>>

\* copy_from(env_path, host_path): noop.py 146-151 and bwrap.py 194-200
\* copy to host_path; docker_env.py 332-344 extracts the tar of env_path
\* into dirname(host_path); docker.py 332-356 (sctf) writes a tar of one
\* file to host_path, and extracts any other into dirname(host_path).
CopyFrom(d) ==
    /\ xpc = "copied"
    /\ xpc' = "back"
    /\ host_path' = d
    /\ LET tar == Archive(Basename(env_path), inside[env_path]) IN
       host' = IF copier \in Tracking THEN Copied(host, d, inside[env_path])
               ELSE IF copier = "sctf" /\ SingleFile(tar) THEN Copied(host, d, tar.node)
               ELSE Extracted(host, Dirname(d), tar)
    /\ UNCHANGED <<copier, inside, env_path, source>>

\* A file or a tree is at Src, and nothing is anywhere else.
CopyInit(bs, ns) ==
    /\ copier \in bs
    /\ source \in ns
    /\ host = [q \in HostPaths |-> IF q = Src THEN source ELSE Nothing]
    /\ inside = [q \in EnvPaths |-> Nothing]
    /\ env_path = <<"/tmp", "data">>
    /\ host_path = Src
    /\ xpc = "start"

NoCopy == CopyInit({"noop"}, {FileOf("other")})

\* ------------------------------------------------ the bwrap command line
\* The extra mounts of a sandbox: BwrapEnvironment (bwrap.py) keeps them in
\* self._extra_mount_list; BwrapSandbox (sctf/sandbox/sandbox.py) keeps its
\* own in self.extra_mount_list and is given more in
\* environment.extra_mount_list.  A list is a sequence of mounts.
Builders == {"BwrapEnvironment", "BwrapSandbox"}
MountLists == {<<>>, <<"/data">>}
EnvMountLists == {<<>>, <<"/opt">>}

\* _build_bwrap_cmd(cwd, self._extra_mount_list), bwrap.py 247-261: the
\* mounts of the command line are those of a copy of the list given,
\* extended by self._extra_mount_list.
BuildBwrapCmd(given, own) == given \o own

\* BwrapSandbox._bwrap_cmd(environment, cwd, extra_mount_list), sandbox.py
\* 219-236: the list that is given, which is self.extra_mount_list itself, as
\* it is when the command line has been built.
BwrapCmdList(given, more) ==
    IF given # <<>> /\ more # <<>> THEN given \o more ELSE given

\* The mounts of the command line _bwrap_cmd builds.
BwrapCmd(given, more) ==
    IF given # <<>> /\ more # <<>> THEN given \o more
    ELSE IF more # <<>> THEN more
    ELSE given

\* execute of BwrapEnvironment (bwrap.py 128) and start of BwrapSandbox
\* (sandbox.py 123-125) build the command line of the process.
BuildCmd ==
    /\ nexec < MaxExecs
    /\ nexec' = nexec + 1
    /\ IF builder = "BwrapEnvironment"
       THEN /\ cmd_mounts' = BuildBwrapCmd(extra_mount_list, extra_mount_list)
            /\ UNCHANGED extra_mount_list
       ELSE /\ cmd_mounts' = BwrapCmd(extra_mount_list, env_mounts)
            /\ extra_mount_list' = BwrapCmdList(extra_mount_list, env_mounts)
    /\ UNCHANGED <<builder, env_mounts>>

\* The sandbox as constructed.
MountsInit(bs, ls, es) ==
    /\ builder \in bs
    /\ extra_mount_list \in ls
    /\ env_mounts \in (IF builder = "BwrapSandbox" THEN es ELSE {<<>>})
    /\ cmd_mounts = <<>>
    /\ nexec = 0

NoMounts == MountsInit({"BwrapEnvironment"}, {<<>>}, {<<>>})

\* ------------------------------------------------------------ Console.mark
\* One pair (msg, time.time()) or (msg, None) of time_points.
TimePoint(msg, t) == [msg |-> msg, t |-> t]

\* time.time() is not None: it is noted as "ts".
Stamp(found) == IF found THEN "ts" ELSE "None"

\* The msg the for loop of mark stands at, line 124.
MarkMsg == cop.msgs[Len(time_points) + 1]

\* No mark was called.
NoMark ==
    /\ time_points = <<>>
    /\ upto = <<>>
    /\ since = 0
    /\ intime = 0

\* A step that is not one of mark.
MarkIdle == UNCHANGED <<time_points, upto, since, intime>>

\* Console.mark, lines 119-121: the call begins, and the history is cleared
\* if clear_history.
MarkCall(cmd, msgs, timeout, clear) ==
    /\ cpc = "idle"
    /\ rpc[Con] # "new"
    /\ cpc' = "run"
    /\ cop' = Call("mark", "any", cmd, msgs, timeout, FALSE, clear)
    /\ atCall' = Ids(queue[QOf(Con)])
    /\ IF clear THEN ClearHistory(Con) ELSE QueuesIdle /\ ReadersIdle
    /\ UNCHANGED <<budget, rem, checks, cline, output, cres, written, seen,
                   skipped, evicted>>
    /\ MarkIdle

\* mark, lines 122-123: the command is run and time_points is made.
MarkRun ==
    /\ cpc = "run" /\ cop.op = "mark"
    /\ written' = RunCmd(written, cop.cmd)
    /\ cpc' = "next"
    /\ QueuesIdle /\ ReadersIdle
    /\ UNCHANGED <<cop, budget, rem, checks, cline, output, cres, seen, atCall,
                   skipped, evicted>>
    /\ MarkIdle

\* mark, lines 124-125 and 129, and read_cond, lines 273-274: with no msg
\* left time_points is returned; else read_until(msg, timeout) is called and
\* takes its start time.
MarkNext ==
    /\ cpc = "next" /\ cop.op = "mark"
    /\ IF Len(time_points) = Len(cop.msgs)
       THEN /\ cpc' = "done"
            /\ cres' = Outcome("return", 0, <<>>, "none", NoCmd, <<>>)
            /\ UNCHANGED <<budget, checks>>
       ELSE /\ cpc' = "loop"
            /\ budget' = cop.timeout
            /\ checks' = <<FALSE>>
            /\ cres' = cres
    /\ QueuesIdle /\ ReadersIdle
    /\ UNCHANGED <<cop, rem, cline, output, written, seen, atCall, skipped, evicted>>
    /\ MarkIdle

\* mark, lines 125-128: read_until has returned found, and the pair of msg
\* is appended to time_points.
MarkAppend(found) ==
    /\ time_points' = Append(time_points, TimePoint(MarkMsg, Stamp(found)))
    /\ upto' = Append(upto, Len(seen))

\* read_cond, lines 276-278: the time that remains is computed; with none
\* left read_until returns False.
MarkLoop ==
    /\ cpc = "loop" /\ cop.op = "mark"
    /\ IF budget <= 0
       THEN cpc' = "next" /\ rem' = 0 /\ MarkAppend(FALSE)
       ELSE cpc' = "get" /\ rem' = budget /\ UNCHANGED <<time_points, upto>>
    /\ QueuesIdle /\ ReadersIdle
    /\ UNCHANGED <<cop, budget, checks, cline, output, cres, written, seen,
                   atCall, skipped, evicted>>
    /\ UNCHANGED <<since, intime>>

\* What read_until does with the outcome of its get: it holds the line, or
\* it returns False on Empty, or it is still waiting.
MarkGot ==
    /\ IF gres'.kind = "item"
       THEN /\ cpc' = "check"
            /\ cline' = gres'.item
            /\ seen' = Append(seen, gres'.item)
            /\ intime' = IF since < cop.timeout THEN Len(seen) + 1 ELSE intime
            /\ UNCHANGED <<time_points, upto>>
       ELSE IF gres'.kind = "none"
       THEN cpc' = "wait" /\ UNCHANGED <<cline, seen, time_points, upto, intime>>
       ELSE cpc' = "next" /\ MarkAppend(FALSE) /\ UNCHANGED <<cline, seen, intime>>
    /\ rem' = 0
    /\ UNCHANGED <<cop, budget, checks, output, cres, written, atCall, skipped,
                   evicted, since>>

\* read_cond, lines 279-282: get_line(block=True, timeout=time_remaining).
MarkGet ==
    /\ cpc = "get" /\ cop.op = "mark"
    /\ GetLine(Caller, Con, TRUE, FALSE, rem)
    /\ MarkGot

\* read_cond, lines 279-282: the get_line goes on after its wait.
MarkWake ==
    /\ cpc = "wait" /\ cop.op = "mark"
    /\ GetLineWake(Caller)
    /\ MarkGot

\* A read_until for which every line matches.
MarkMatchedAny(text, msg) == TRUE

\* read_until(msg, timeout), lines 293-295, with read_cond, lines 283-287:
\* regex is False and end_func is any over the one check.
MarkMatched(text, msg) == EndFunc("any", Checks(<<FALSE>>, text, <<msg>>, FALSE))

\* read_cond, lines 283-287: the line is examined; read_until returns True
\* if it matches msg, or goes round the loop.
MarkCheck ==
    /\ cpc = "check" /\ cop.op = "mark"
    /\ IF MarkMatched(cline.text, MarkMsg)
       THEN cpc' = "next" /\ MarkAppend(TRUE)
       ELSE cpc' = "loop" /\ UNCHANGED <<time_points, upto>>
    /\ cline' = NoEntry
    /\ QueuesIdle /\ ReadersIdle
    /\ UNCHANGED <<cop, budget, rem, checks, output, cres, written, seen, atCall,
                   skipped, evicted>>
    /\ UNCHANGED <<since, intime>>

\* Time passes during a mark: since counts the ticks from the command on, up
\* to the timeout of the call.
MarkTick ==
    /\ Tick
    /\ since' = IF cpc \in {"idle", "run", "done"} \/ since >= cop.timeout
                THEN since ELSE since + 1
    /\ UNCHANGED <<time_points, upto, intime>>

\* ----------------------------------------- LineReader.run: the log section
\* The iteration of run of a reader with a logfile, lines 237-260, in steps.
\* file is what the operating system holds of the logfile; each reader has
\* opened it for itself (line 236), and pending[r] is what the file object
\* of reader r has been given and has not flushed yet.

\* No reader is in an iteration of run.
NoLog ==
    /\ lock = 0
    /\ lpc = [r \in Readers |-> "idle"]
    /\ file = <<>>
    /\ pending = [r \in Readers |-> <<>>]

\* A step that is not one of the log section.
LogIdle == UNCHANGED <<lock, lpc, file, pending>>

\* The entry of the line reader r has read last.
LogEntry(r) == Entry(r, nread[r], <<>>)

\* run, lines 239-250: readline_func returns a line, and message is made.
LogRead(r) ==
    /\ rpc[r] = "read" /\ lpc[r] = "idle"
    /\ nread[r] < MaxLines
    /\ nread' = [nread EXCEPT ![r] = @ + 1]
    /\ lpc' = [lpc EXCEPT ![r] = "line"]
    /\ lastRead' = NoLine
    /\ QueuesIdle
    /\ UNCHANGED <<name, logfile, rpc, cur, expr_cbks, nreg, diter, snap, invoked,
                   lastGot>>
    /\ UNCHANGED <<lock, file, pending>>

\* A lock that anyone may take at any time.
LockFreeAlways == TRUE

\* threading.Lock: acquire returns once no thread holds the lock.
LockFree == lock = 0

\* run, line 252: with LineReader.log_locks[self._logfile].
LogAcquire(r) ==
    /\ lpc[r] = "line"
    /\ LockFree
    /\ lock' = r
    /\ lpc' = [lpc EXCEPT ![r] = "locked"]
    /\ QueuesIdle /\ ReadersIdle
    /\ UNCHANGED <<file, pending>>

\* The with statement is left: the lock is released, and the iteration ends
\* (no callback is registered).
LogRelease(r) ==
    /\ lock' = IF lock = r THEN 0 ELSE lock
    /\ lpc' = [lpc EXCEPT ![r] = "idle"]

\* run, lines 254 and 259-260: logfile.write(f"{message} \n") hands the
\* entry to the file object, or raises and the exception is logged.
LogWrite(r, ok) ==
    /\ lpc[r] = "locked"
    /\ IF ok
       THEN /\ pending' = [pending EXCEPT ![r] = Append(@, LogEntry(r))]
            /\ lpc' = [lpc EXCEPT ![r] = "written"]
            /\ lock' = lock
       ELSE LogRelease(r) /\ pending' = pending
    /\ QueuesIdle /\ ReadersIdle
    /\ file' = file

\* run, lines 255 and 259-260: logfile.flush() appends to the file what the
\* file object holds, or raises, the file object holding it still, and the
\* exception is logged.
LogFlush(r, ok) ==
    /\ lpc[r] = "written"
    /\ IF ok
       THEN /\ file' = file \o pending[r]
            /\ pending' = [pending EXCEPT ![r] = <<>>]
            /\ lpc' = [lpc EXCEPT ![r] = "flushed"]
            /\ lock' = lock
       ELSE LogRelease(r) /\ UNCHANGED <<file, pending>>
    /\ QueuesIdle /\ ReadersIdle

\* run, lines 256-258: self._add_log(message) puts the entry into the queue
\* of the logfile, and the with statement is left.
LogAdd(r) ==
    /\ lpc[r] = "flushed"
    /\ Put(SharedQ, LogEntry(r))
    /\ nput' = nput
    /\ LogRelease(r)
    /\ ReadersIdle
    /\ UNCHANGED <<file, pending>>

\* ------------------------------------------------------ ProcessWrapper
\* process_wrapper.py. The ProcessWrappers of one interpreter share its
\* handler of SIGTERM. monitor_process_startup keeps its default, False.

\* How many ProcessWrappers the test holds.
MaxWrappers == 2

Wrappers == 1 .. MaxWrappers

\* The handler of SIGTERM installed before any start_process.
Original == 0

\* No ProcessWrapper was started.
NoWrapper ==
    /\ sigterm = Original
    /\ old_sigterm = [w \in Wrappers |-> -1]
    /\ process = [w \in Wrappers |-> "none"]
    /\ phase = [w \in Wrappers |-> "new"]

\* What poll says of the process after the body of kill_process, lines
\* 103-135: a running process has stopped, or could not be stopped.
AfterKill(p, stopped) == IF p = "running" /\ stopped THEN "exited" ELSE p

\* start_process, lines 73-100: the handler is replaced by the wrapper's
\* own and the one replaced is kept in _old_sigterm; then Popen gives the
\* process, or raises and leaves _process as it was.
StartProcess(w, popen) ==
    /\ old_sigterm' = [old_sigterm EXCEPT ![w] = sigterm]
    /\ sigterm' = w
    /\ process' = [process EXCEPT ![w] = IF popen THEN "running" ELSE @]
    /\ phase' = [phase EXCEPT ![w] = "started"]

\* kill_process, lines 102-140, of a wrapper that has a process: every
\* exception of the body is caught, then _old_sigterm is installed. With
\* _process None the call raises at line 103 and changes nothing.
KillProcess(w, stopped) ==
    /\ process[w] # "none"
    /\ process' = [process EXCEPT ![w] = AfterKill(@, stopped)]
    /\ sigterm' = old_sigterm[w]
    /\ phase' = [phase EXCEPT ![w] = "killed"]
    /\ UNCHANGED old_sigterm

\* restart_process, lines 178-184: kill_process, then start_process, which
\* keeps the handler that kill_process has just installed.
RestartProcess(w, stopped, popen) ==
    /\ process[w] # "none"
    /\ old_sigterm' = [old_sigterm EXCEPT ![w] = old_sigterm[w]]
    /\ sigterm' = w
    /\ process' = [process EXCEPT
                     ![w] = IF popen THEN "running" ELSE AfterKill(@, stopped)]
    /\ phase' = [phase EXCEPT ![w] = "started"]

\* SIGTERM arrives while a wrapper's handler is installed: _signal_handler,
\* lines 69-71, calls kill_process of that wrapper.
Sigterm(stopped) ==
    /\ sigterm \in Wrappers
    /\ KillProcess(sigterm, stopped)

\* The process of a wrapper ends by itself.
ProcessExit(w) ==
    /\ process[w] = "running"
    /\ process' = [process EXCEPT ![w] = "exited"]
    /\ UNCHANGED <<sigterm, old_sigterm, phase>>

\* The Console's mark, the log section and the ProcessWrappers, unused.
NoLater == NoMark /\ NoLog /\ NoWrapper

\* The layers below the Environment and the later ones, unused.
NoExtras == NoDiscovery /\ NoSetup /\ NoCopy /\ NoMounts /\ NoLater

\* ------------------------------------------------ the queue under test
\* A LineReaderQueue of any capacity, with no consumer in a call.
QueuesInit(caps) ==
    /\ max_size \in [Queues -> caps]
    /\ \A q \in Queues : max_size[q] = max_size[TestQ]
    /\ queue = [q \in Queues |-> <<>>]
    /\ waiters = [q \in Queues |-> <<>>]
    /\ nput = 0
    /\ gpc = [c \in Consumers |-> "idle"]
    /\ gq = [c \in Consumers |-> TestQ]
    /\ gblock = [c \in Consumers |-> FALSE]
    /\ timer = [c \in Consumers |-> 0]
    /\ notified = [c \in Consumers |-> FALSE]
    /\ gres = NoResult
    /\ putDuring = [c \in Consumers |-> FALSE]
    /\ otherRemoved = [c \in Consumers |-> FALSE]
    /\ sinceMark = 0


\* A thread puts the next line: line k is the k-th line put.
QPut ==
    /\ nput < MaxPuts
    /\ nput' = nput + 1
    /\ Put(TestQ, nput + 1)

QClear == Clear(TestQ)

QGet(c) ==
    \E block \in BOOLEAN, tnone \in BOOLEAN, timeout \in -1..MaxTimeout :
        GetEnter(c, TestQ, block, tnone, timeout)

QWake(c) == GetWake(c)

QTick ==
    /\ TimersRunning
    /\ TickTimers
    /\ gres' = NoResult
    /\ UNCHANGED <<max_size, queue, waiters, nput, gpc, gq, gblock, notified,
                   putDuring, otherRemoved, sinceMark>>

QNext ==
    \/ QPut
    \/ QClear
    \/ \E c \in Consumers : QGet(c)
    \/ \E c \in Consumers : QWake(c)
    \/ QTick

\* No LineReader is running.
NoReaders ==
    /\ name = [r \in Readers |-> <<"con">>]
    /\ logfile = [r \in Readers |-> FALSE]
    /\ rpc = [r \in Readers |-> "new"]
    /\ nread = [r \in Readers |-> 0]
    /\ cur = [r \in Readers |-> <<>>]
    /\ lastRead = NoLine
    /\ expr_cbks = [r \in Readers |-> <<>>]
    /\ nreg = 0
    /\ diter = [r \in Readers |-> NoIter]
    /\ snap = [r \in Readers |-> <<>>]
    /\ invoked = [r \in Readers |-> <<>>]
    /\ lastGot = [q \in Queues |-> [r \in Readers |-> 0]]

\* A queue on its own: no reader runs and no Console call is made.
QInit == QueuesInit(0..MaxCap) /\ NoReaders /\ ConsoleIdle /\ NoEnvironment /\ NoExtras

SpecQ == QInit /\ [][QNext /\ UNCHANGED <<rvars, cvars, evars, xvars>>]_vars

\* The step is one of the queue only.
QueueOnly == UNCHANGED <<rvars, cvars, evars, xvars>>

\* A queue that is unbounded or holds one line, two consumers, one thread
\* or more that puts and clears, and gets that do not block,
\* that block with no timeout, or that block for one tick.
FairInit == QueuesInit({0, 1}) /\ NoReaders /\ ConsoleIdle /\ NoEnvironment /\ NoExtras

FGet(c) ==
    \E block \in BOOLEAN, tnone \in BOOLEAN : GetEnter(c, TestQ, block, tnone, 1)

\* The two threads that call get.
FairConsumers == {1, 2}

FairNext ==
    \/ QPut /\ QueueOnly
    \/ QClear /\ QueueOnly
    \/ (\E c \in FairConsumers : FGet(c)) /\ QueueOnly
    \/ (\E c \in FairConsumers : QWake(c)) /\ QueueOnly
    \/ QTick /\ QueueOnly

\* The runs in which a consumer whose not_empty.wait can return (it was
\* notified, or its timeout has passed) is scheduled and returns from it.
SpecQFair ==
    /\ FairInit /\ [][FairNext]_vars
    /\ \A c \in FairConsumers : WF_vars(QWake(c) /\ QueueOnly)

\* ------------------------------------------- LineReaders and a consumer
\* What readline_func returns in the runs of SpecReader.
RawLines == {<<" ", "a", "NUL">>, <<"NUL", " ">>}

WriteOutcomes == {"ok", "write_raises", "flush_raises"}

\* LineReader.__init__ (lines 213-233): reader 1 with or without the logfile,
\* and with it or not a second reader on the same logfile (a second reader
\* without it shares nothing with the first).  No line is read yet, no
\* callback registered.
ReadersInit(names) ==
    /\ name \in [Readers -> names]
    /\ logfile \in [Readers -> BOOLEAN]
    /\ logfile[2] => logfile[1]
    /\ rpc \in [Readers -> {"new", "absent"}]
    /\ rpc[1] = "new" /\ (rpc[2] = "new" <=> logfile[2])
    /\ nread = [r \in Readers |-> 0]
    /\ cur = [r \in Readers |-> <<>>]
    /\ lastRead = NoLine
    /\ expr_cbks = [r \in Readers |-> <<>>]
    /\ nreg = 0
    /\ diter = [r \in Readers |-> NoIter]
    /\ snap = [r \in Readers |-> <<>>]
    /\ invoked = [r \in Readers |-> <<>>]
    /\ lastGot = [q \in Queues |-> [r \in Readers |-> 0]]

RInit ==
    /\ QueuesInit({ReaderCap}) /\ ReadersInit({<<"con">>}) /\ ConsoleIdle
    /\ NoEnvironment /\ NoExtras

RStart(r) == ReaderStart(r) /\ QueuesIdle

RRead(r) ==
    /\ nread[r] < MaxLines
    /\ \E raw \in RawLines, wr \in WriteOutcomes : ReaderRead(r, raw, wr)

REnd(r) == ReaderEnd(r) /\ QueuesIdle

RDispatchKey(r) == DispatchKey(r) /\ QueuesIdle

\* get_line with its default arguments: block=False, timeout=None.
RGetLine(h) == GetLine(1, h, FALSE, TRUE, 0)

RClearHistory(h) == ClearHistory(h)

RNext ==
    \/ \E r \in Readers : RStart(r)
    \/ \E r \in Readers : RRead(r)
    \/ \E r \in Readers : REnd(r)
    \/ \E r \in Readers : RDispatchKey(r)
    \/ \E h \in Readers : RGetLine(h)
    \/ \E h \in Readers : RClearHistory(h)

SpecReader == RInit /\ [][RNext /\ UNCHANGED <<cvars, evars, xvars>>]_vars

\* ----------------------------------------- one LineReader and callbacks
\* What readline_func returns in the runs of SpecCbk.
CbkLines == {<<"a", "b">>, <<" ", "b", "NUL">>}

\* The (expr, regex) pairs callbacks are registered with.
Patterns == {[expr |-> <<"a">>, regex |-> FALSE],
             [expr |-> <<"b">>, regex |-> FALSE],
             [expr |-> <<"a", ".">>, regex |-> TRUE]}

CInit ==
    /\ QueuesInit({ConsoleCap}) /\ ReadersInit({<<"con">>}) /\ rpc[2] = "absent"
    /\ ConsoleIdle
    /\ NoEnvironment /\ NoExtras

CStart == ReaderStart(1) /\ QueuesIdle

CRead ==
    /\ nread[1] < MaxLines
    /\ \E raw \in CbkLines, wr \in WriteOutcomes : ReaderRead(1, raw, wr)

CEnd == ReaderEnd(1) /\ QueuesIdle

CDispatchKey == DispatchKey(1) /\ QueuesIdle

CDispatchCbk == \E raises \in BOOLEAN : DispatchCbk(1, raises) /\ QueuesIdle

CAddExprCbk == \E p \in Patterns : AddExprCbk(1, p.expr, p.regex) /\ QueuesIdle

CNext ==
    \/ CStart
    \/ CRead
    \/ CEnd
    \/ CDispatchKey
    \/ CDispatchCbk
    \/ CAddExprCbk

SpecCbk == CInit /\ [][CNext /\ UNCHANGED <<cvars, evars, xvars>>]_vars

\* --------------------------------------------- a Console and expect_any/all
\* What readline_func returns in the runs of SpecExpect.
ExpectLines == {<<"a", ".">>, <<" ", "a", "b", "NUL">>}

\* The msgs of the calls: a str, or a list of two patterns.
ExpectMsgs == {[isstr |-> TRUE, val |-> <<"a", ".">>],
               [isstr |-> FALSE, val |-> <<<<"a", ".">>, <<"b">>>>]}

ExpectCmds == {NoCmd, StrCmd(<<"c">>)}

\* Console.__init__ (lines 27-44) with logfile=None.
ConsoleInit ==
    /\ QueuesInit({ConsoleCap}) /\ ReadersInit({<<"con">>}) /\ rpc[2] = "absent"
    /\ ~logfile[Con]
    /\ ConsoleIdle
    /\ NoEnvironment /\ NoExtras

EReader == ConsoleReader

ERead == \E raw \in ExpectLines : ConsoleRead(raw, "ok")

ECall ==
    \E func \in {"any", "all"}, cmd \in ExpectCmds, m \in ExpectMsgs,
       timeout \in 0..MaxTimeout, regex \in BOOLEAN, clear \in BOOLEAN :
        ExpectCall(func, cmd, m, timeout, regex, clear)

ENext ==
    \/ EReader
    \/ ERead
    \/ ECall
    \/ ExpectRun
    \/ ReadCondLoop
    \/ ReadCondGet
    \/ ReadCondWake
    \/ ReadCondCheck
    \/ Tick

SpecExpect == ConsoleInit /\ [][ENext /\ UNCHANGED <<evars, xvars>>]_vars

\* ------------------------------------------ a Console and run_sh_cmd_output
ShCmds == {<<"l", "s">>, <<"1">>}

\* What readline_func returns in the runs of SpecSh: the command as the
\* terminal echoes it, a line of output, and lines with the tag and a status.
ShLines == {ShCommand(<<"l", "s">>), <<"o", "k">>, TagEq \o <<"0">>, TagEq \o <<"1">>}

SReader == ConsoleReader

SRead == \E raw \in ShLines : ConsoleRead(raw, "ok")

SCall == \E cmd \in ShCmds, timeout \in 0..MaxTimeout : RunShCall(cmd, timeout)

SNext ==
    \/ SReader
    \/ SRead
    \/ SCall
    \/ RunShWrite
    \/ RunShLoop
    \/ RunShGet
    \/ RunShWake
    \/ RunShCheck
    \/ Tick

SpecSh == ConsoleInit /\ [][SNext /\ UNCHANGED <<evars, xvars>>]_vars

\* ------------------------------------------- two readers on one logfile
\* Two LineReaders constructed with the same logfile.
LogInit ==
    /\ QueuesInit({ReaderCap}) /\ ReadersInit({<<"con">>})
    /\ logfile[1] /\ logfile[2]
    /\ ConsoleIdle
    /\ NoEnvironment /\ NoExtras

\* The step is one of the readers or of the queue.
ReadersOnly == UNCHANGED <<cvars, evars, dvars, kvars, fvars, mvars, tvars, wvars>>

LStart == (\E r \in Readers : ReaderStart(r)) /\ QueuesIdle /\ LogIdle

LRead == \E r \in Readers : LogRead(r)

LAcquire == \E r \in Readers : LogAcquire(r)

LWrite == \E r \in Readers, ok \in BOOLEAN : LogWrite(r, ok)

LFlush == \E r \in Readers, ok \in BOOLEAN : LogFlush(r, ok)

LAdd == \E r \in Readers : LogAdd(r)

\* get_line with its default arguments, on either reader.
LGetLine == (\E h \in Readers : GetLine(1, h, FALSE, TRUE, 0)) /\ LogIdle

LogNext ==
    \/ LStart /\ ReadersOnly
    \/ LRead /\ ReadersOnly
    \/ LAcquire /\ ReadersOnly
    \/ LWrite /\ ReadersOnly
    \/ LFlush /\ ReadersOnly
    \/ LAdd /\ ReadersOnly
    \/ LGetLine /\ ReadersOnly

SpecLog == LogInit /\ [][LogNext]_vars

\* ------------------------------------------ ProcessWrappers of one test
\* The wrappers constructed, none started, and nothing else in use.
WrapperInit ==
    /\ QueuesInit({0}) /\ NoReaders /\ ConsoleIdle /\ NoEnvironment
    /\ NoDiscovery /\ NoSetup /\ NoCopy /\ NoMounts
    /\ NoMark /\ NoLog /\ NoWrapper

\* The step is one of the ProcessWrappers.
WrappersOnly ==
    UNCHANGED <<qvars, rvars, cvars, evars, dvars, kvars, fvars, mvars, tvars, lvars>>

WStart == \E w \in Wrappers, popen \in BOOLEAN : StartProcess(w, popen)

WKill == \E w \in Wrappers, stopped \in BOOLEAN : KillProcess(w, stopped)

WRestart ==
    \E w \in Wrappers, stopped \in BOOLEAN, popen \in BOOLEAN :
        RestartProcess(w, stopped, popen)

WSigterm == \E stopped \in BOOLEAN : Sigterm(stopped)

WExit == \E w \in Wrappers : ProcessExit(w)

WrapperNext ==
    \/ WStart /\ WrappersOnly
    \/ WKill /\ WrappersOnly
    \/ WRestart /\ WrappersOnly
    \/ WSigterm /\ WrappersOnly
    \/ WExit /\ WrappersOnly

SpecWrapper == WrapperInit /\ [][WrapperNext]_vars

\* ---------------------------------------------- a Console and its mark
\* What readline_func returns in the runs of SpecMark.
MarkLines == {<<"a">>, <<"b">>}

\* The msgs of the calls: two patterns, or one.
MarkMsgs == {<<<<"a">>, <<"b">>>>, <<<<"b">>>>}

\* The step is one of the Console.
ConsoleOnly == UNCHANGED <<evars, dvars, kvars, fvars, mvars, lvars, wvars>>

MReader == ConsoleReader /\ MarkIdle

MRead == (\E raw \in MarkLines : ConsoleRead(raw, "ok")) /\ MarkIdle

MCall ==
    \E cmd \in ExpectCmds, msgs \in MarkMsgs, timeout \in 0..MaxTimeout,
       clear \in BOOLEAN :
        MarkCall(cmd, msgs, timeout, clear)

MarkStep ==
    \/ MReader /\ ConsoleOnly
    \/ MRead /\ ConsoleOnly
    \/ MCall /\ ConsoleOnly
    \/ MarkRun /\ ConsoleOnly
    \/ MarkNext /\ ConsoleOnly
    \/ MarkLoop /\ ConsoleOnly
    \/ MarkGet /\ ConsoleOnly
    \/ MarkWake /\ ConsoleOnly
    \/ MarkCheck /\ ConsoleOnly
    \/ MarkTick /\ ConsoleOnly

SpecMark == ConsoleInit /\ [][MarkStep]_vars

\* ------------------------------------- one handle and its stop_process
\* An Environment of any backend; the Console is not used.
StopInit ==
    /\ QueuesInit({ConsoleCap}) /\ NoReaders /\ ConsoleIdle
    /\ EnvironmentInit(Backends, {MaxStop})
    /\ NoExtras

\* execute of an executable file returns the one handle of the run.
PExecute ==
    \E found \in Discoveries, c \in ExitCodes, ign \in BOOLEAN :
        Execute(1, "exec", TRUE, found, c, ign)

PStop ==
    \E tnone \in BOOLEAN, timeout \in 0..MaxStop :
        /\ CallerFree /\ nstops[1] < MaxStops
        /\ tnone => timeout = 0
        /\ StopBegin(1, tnone, timeout, FALSE)
        /\ UNCHANGED tdvars

PProcess == \E c \in ExitCodes : ProcessStep(1, c)

PPoll == \E pid \in BOOLEAN : StopPoll(pid)

\* The step is none of a queue, of a LineReader or of the Console, and none
\* of the layers below the Environment.
ConsoleUnused == UNCHANGED <<qvars, rvars, cvars, xvars>>

StopNext ==
    \/ PExecute /\ ConsoleUnused
    \/ PStop /\ ConsoleUnused
    \/ PProcess /\ ConsoleUnused
    \/ StopEnter /\ ConsoleUnused
    \/ StopWait /\ ConsoleUnused
    \/ StopWaitKilled /\ ConsoleUnused
    \/ StopChildWait /\ ConsoleUnused
    \/ StopChildWaitKilled /\ ConsoleUnused
    \/ StopParentWait /\ ConsoleUnused
    \/ StopJoin /\ ConsoleUnused
    \/ PPoll /\ ConsoleUnused
    \/ StopKillPoll /\ ConsoleUnused
    \/ StopTick /\ ConsoleUnused

SpecStop == StopInit /\ [][StopNext]_vars

\* The caller of stop_process takes its next step.
StopStep ==
    \/ StopEnter \/ StopWait \/ StopWaitKilled \/ StopChildWait \/ StopChildWaitKilled
    \/ StopParentWait \/ StopJoin \/ PPoll \/ StopKillPoll

\* A process that was sent the kill exits.
KillActs == PProcess /\ (psig[1] = "kill" \/ csig[1] = "kill")

\* The same runs, in which the caller is scheduled, time passes, and a
\* process that was sent the kill exits.  Nothing makes any other process
\* exit or a reader thread finish.
SpecStopFair ==
    /\ StopInit /\ [][StopNext]_vars
    /\ WF_vars(StopStep /\ ConsoleUnused)
    /\ WF_vars(StopTick /\ ConsoleUnused)
    /\ WF_vars(KillActs /\ ConsoleUnused)

\* ------------------------------- execute and teardown of noop and bwrap
\* An Environment that tracks its handles; the Console is not used.
TrackingInit ==
    /\ QueuesInit({ConsoleCap}) /\ NoReaders /\ ConsoleIdle
    /\ EnvironmentInit(Tracking, {0})
    /\ NoExtras

\* execute of an executable file, whose process heeds the graceful signal.
TExecute ==
    \E h \in Handles, found \in Discoveries :
        Execute(h, "exec", TRUE, found, 0, FALSE)

TProcess == \E h \in Handles : ProcessStep(h, 0)

TrackingNext ==
    \/ TExecute /\ ConsoleUnused
    \/ TProcess /\ ConsoleUnused
    \/ TeardownBegin /\ ConsoleUnused
    \/ TeardownLoop /\ ConsoleUnused
    \/ TeardownStopped /\ ConsoleUnused
    \/ StopEnter /\ ConsoleUnused
    \/ StopWait /\ ConsoleUnused
    \/ StopWaitKilled /\ ConsoleUnused
    \/ StopChildWait /\ ConsoleUnused
    \/ StopChildWaitKilled /\ ConsoleUnused
    \/ StopParentWait /\ ConsoleUnused
    \/ StopJoin /\ ConsoleUnused
    \/ StopTick /\ ConsoleUnused

SpecTracking == TrackingInit /\ [][TrackingNext]_vars

\* ------------------------------------------- execute of noop and bwrap
\* execute of any path: an executable file, a missing one, a directory, or a
\* file without the execute permission, owned by the caller or not.
XExecute ==
    \E h \in Handles, kind \in PathKinds, owned \in BOOLEAN, found \in Discoveries,
       c \in ExitCodes, ign \in BOOLEAN :
        Execute(h, kind, owned, found, c, ign)

XProcess == \E h \in Handles, c \in ExitCodes : ProcessStep(h, c)

ExecNext ==
    \/ XExecute /\ ConsoleUnused
    \/ XProcess /\ ConsoleUnused

SpecExec == TrackingInit /\ [][ExecNext]_vars

\* ------------------------------------ execute and stop_process, no teardown
\* The handles of these runs: a first and a second one.
TwoHandles == {1, 2}

\* execute of an executable file or of a missing one; the process heeds the
\* graceful signal.
HExecute ==
    \E h \in TwoHandles, kind \in {"exec", "missing"}, found \in Discoveries :
        Execute(h, kind, TRUE, found, 0, FALSE)

\* stop_process of any handle execute has returned, stopped before or not.
HStop ==
    \E h \in TwoHandles :
        /\ CallerFree
        /\ StopBegin(h, FALSE, 0, FALSE)
        /\ UNCHANGED tdvars

HandlesNext ==
    \/ HExecute /\ ConsoleUnused
    \/ TProcess /\ ConsoleUnused
    \/ HStop /\ ConsoleUnused
    \/ StopEnter /\ ConsoleUnused
    \/ StopWait /\ ConsoleUnused
    \/ StopWaitKilled /\ ConsoleUnused
    \/ StopChildWait /\ ConsoleUnused
    \/ StopChildWaitKilled /\ ConsoleUnused
    \/ StopParentWait /\ ConsoleUnused
    \/ StopJoin /\ ConsoleUnused
    \/ StopTick /\ ConsoleUnused

SpecHandles == TrackingInit /\ [][HandlesNext]_vars

\* ------------------------------------------ discovery under bwrap execute
\* The step is one of the discovery layer only.
DiscoveryOnly == UNCHANGED <<qvars, rvars, cvars, evars, kvars, fvars, mvars, nvars>>

\* One execute whose processes form a chain under the supervisor and start
\* and end at any time, as the supervisor does.
DiscInit ==
    /\ QueuesInit({ConsoleCap}) /\ NoReaders /\ ConsoleIdle /\ NoEnvironment
    /\ DiscoveryInit(Chains, {{}})
    /\ NoSetup /\ NoCopy /\ NoMounts /\ NoLater

DProcStart == \E p \in Procs : ProcStart(p)

DProcExit == \E p \in Procs : ProcExit(p)

DiscNext ==
    \/ ExecuteSpawn /\ DiscoveryOnly
    \/ FindWalk /\ DiscoveryOnly
    \/ FindPoll /\ DiscoveryOnly
    \/ ExecuteExcept /\ DiscoveryOnly
    \/ ExecuteReturn /\ DiscoveryOnly
    \/ DProcStart /\ DiscoveryOnly
    \/ DProcExit /\ DiscoveryOnly
    \/ SupervisorExit /\ DiscoveryOnly

SpecDisc == DiscInit /\ [][DiscNext]_vars

\* walk(parent) on any tree of processes, any of which are alive, under a
\* supervisor that runs.
WalkInit ==
    /\ QueuesInit({ConsoleCap}) /\ NoReaders /\ ConsoleIdle /\ NoEnvironment
    /\ tree \in Trees
    /\ live \in SUBSET Procs
    /\ parent_proc = "run"
    /\ fpc = "walk"
    /\ attempt = 0
    /\ result = NoChild
    /\ raised = "none"
    /\ polled = "none"
    /\ walked = NoChild
    /\ eout = "none"
    /\ hchild = None
    /\ hpid = None
    /\ tracked = FALSE
    /\ NoSetup /\ NoCopy /\ NoMounts /\ NoLater

WalkNext == FindWalk /\ DiscoveryOnly

SpecWalk == WalkInit /\ [][WalkNext]_vars

\* find_process_in_tree(target_process) of BwrapSandbox on the same trees.
SandboxWalkNext == SandboxFindWalk /\ DiscoveryOnly

SpecSandboxWalk == WalkInit /\ [][SandboxWalkNext]_vars

\* -------------------------------------- setup and teardown of any backend
\* The step is one of setup or teardown only.
SetupOnly == UNCHANGED <<qvars, rvars, cvars, evars, dvars, fvars, mvars, nvars>>

\* An Environment of any backend, as constructed.
LifecycleInit ==
    /\ QueuesInit({ConsoleCap}) /\ NoReaders /\ ConsoleIdle /\ NoEnvironment
    /\ NoDiscovery /\ NoCopy /\ NoMounts /\ NoLater
    /\ SetupInit(Configs)

LSetup == \E runs \in BOOLEAN : Setup(runs)

LContainerExit == \E c \in Containers : ContainerExit(c)

LifecycleNext ==
    \/ LSetup /\ SetupOnly
    \/ LContainerExit /\ SetupOnly
    \/ Teardown /\ SetupOnly

SpecLifecycle == LifecycleInit /\ [][LifecycleNext]_vars

\* ------------------------------------- a copy into the environment and back
\* The step is one of copy_to or copy_from only.
CopyOnly == UNCHANGED <<qvars, rvars, cvars, evars, dvars, kvars, mvars, nvars>>

\* An Environment of any backend, with a file or a tree to copy.
RoundTripInit ==
    /\ QueuesInit({ConsoleCap}) /\ NoReaders /\ ConsoleIdle /\ NoEnvironment
    /\ NoDiscovery /\ NoSetup /\ NoMounts /\ NoLater
    /\ CopyInit(Backends, Nodes)

FCopyTo == \E p \in EnvPaths : CopyTo(p)

FCopyFrom == \E d \in HostPaths : CopyFrom(d)

RoundTripNext ==
    \/ FCopyTo /\ CopyOnly
    \/ FCopyFrom /\ CopyOnly

SpecRoundTrip == RoundTripInit /\ [][RoundTripNext]_vars

\* ------------------------------------ the configuration over the calls
\* An Environment of any backend and a sandbox of either class, as
\* constructed: setup and teardown are called on the one, and command lines
\* are built by the other.
ConfigInit ==
    /\ QueuesInit({ConsoleCap}) /\ NoReaders /\ ConsoleIdle /\ NoEnvironment
    /\ NoDiscovery /\ NoCopy /\ NoLater
    /\ SetupInit(Configs)
    /\ MountsInit(Builders, MountLists, EnvMountLists)

OtherUnused == UNCHANGED <<qvars, rvars, cvars, evars, dvars, fvars, nvars>>

ConfigNext ==
    \/ LSetup /\ OtherUnused /\ UNCHANGED mvars
    \/ Teardown /\ OtherUnused /\ UNCHANGED mvars
    \/ BuildCmd /\ OtherUnused /\ UNCHANGED kvars

SpecConfig == ConfigInit /\ [][ConfigNext]_vars

\* --------------------------------------------- claims on LineReaderQueue
TQ == queue[TestQ]
TCap == max_size[TestQ]
QueueFull == TCap > 0 /\ Len(TQ) >= TCap

\* C1: with a capacity c > 0 the queue never holds more than c lines, under
\* every interleaving of put, get and clear; a put is always possible (it
\* neither blocks nor raises), and a put on a full queue removes exactly the
\* oldest line and appends the new one.
C1_BoundedDropOldest ==
    /\ [](TCap > 0 => Len(TQ) <= TCap)
    /\ [](nput < MaxPuts => ENABLED QPut)
    /\ [][nput' # nput =>
            TQ' = IF QueueFull THEN Append(Tail(TQ), nput') ELSE Append(TQ, nput')]_vars

\* C1 witness: more lines were put than the queue holds, with no get or
\* clear, so a put on a full queue has evicted a line.
C1_Witness ==
    TCap > 0 /\ Len(TQ) = TCap /\ sinceMark = 0 /\ nput > TCap

LastPut(n) == [i \in 1..n |-> nput - n + i]

\* C2: for a capacity c > 0, once n > c lines were put with no get or clear
\* in between, the queue holds exactly the last c lines put, in order.
C2_LastLinesKept ==
    (TCap > 0 /\ nput - sinceMark > TCap) => TQ = LastPut(TCap)

\* C2 witness: three or more lines were put into a queue of capacity two.
C2_Witness == TCap > 1 /\ nput - sinceMark > TCap /\ Len(TQ) = TCap

\* C3: a blocking get with a timeout that found the queue empty and waited
\* signals Empty only with the deadline passed and the queue empty; and if a
\* line was put while it waited and no other get or clear removed a line,
\* it returns a line and does not signal Empty.
C3_NoFalseEmpty ==
    gres.waited =>
        /\ gres.kind = "Empty" => gres.expired /\ TQ = <<>>
        /\ (gres.put /\ ~gres.removed) => gres.kind = "item"

\* C3 witness: a get waited on the empty queue, a line was put before its
\* deadline, and the get returned that line.
C3_Witness ==
    /\ gres.kind = "item" /\ gres.waited /\ gres.put
    /\ ~gres.removed /\ ~gres.expired

\* --------------------------------------------------- claims on LineReader
\* C4: the lines of one reader that successive gets return come in the order
\* in which the reader read them: each has a higher index in the reader's
\* stream than every line of that reader returned before it.
C4_OrderKept ==
    [][gres'.kind = "item" =>
          gres'.item.idx > lastGot[gq'[gres'.who]][gres'.item.rd]]_vars

\* C4 witness: from the queue two readers share, the consumer has got lines
\* of both, the last one the second line of its reader.
C4_Witness ==
    /\ gres.kind = "item" /\ gres.item.idx = 2
    /\ \A r \in Readers : lastGot[SharedQ][r] > 0

\* C5: every line readline_func returns is put into the reader's queue by
\* the step that reads it: with or without a logfile, and also when the write
\* to the logfile fails.
C5_EveryLineEnqueued ==
    lastRead.rd # 0 =>
        LET q == queue[QOf(lastRead.rd)]
        IN  q # <<>> /\ q[Len(q)].rd = lastRead.rd /\ q[Len(q)].idx = lastRead.idx

\* The callbacks in d, and the key a callback was registered with.
Range(f) == {f[i] : i \in DOMAIN f}
CbkIds(d) == UNION {Range(d[i].cbks) : i \in DOMAIN d}
KeyOf(d, id) == d[CHOOSE i \in DOMAIN d : id \in Range(d[i].cbks)]
SameKey(k1, k2) == k1.expr = k2.expr /\ k1.regex = k2.regex
FirstOf(d, key) == CHOOSE id \in CbkIds(d) :
    /\ SameKey(KeyOf(d, id), key)
    /\ \A other \in CbkIds(d) : SameKey(KeyOf(d, other), key) => id <= other

\* The key of callback id matches line: a regular expression is searched
\* for, any other pattern has to occur in the line.
KeyMatches(d, id, line) ==
    IF KeyOf(d, id).regex THEN ReSearch(KeyOf(d, id).expr, line)
    ELSE Contains(line, KeyOf(d, id).expr)

\* Callback x comes before callback y: by key, the keys in the order in which
\* each was first registered, and within one key in registration order.
KeyOrder(d, x, y) ==
    IF SameKey(KeyOf(d, x), KeyOf(d, y)) THEN x < y
    ELSE FirstOf(d, KeyOf(d, x)) < FirstOf(d, KeyOf(d, y))

\* The callbacks called for the current line of r, among those registered
\* when its dispatch began.
Called(r) == SelectSeq(invoked[r], LAMBDA id : id \in CbkIds(snap[r]))

\* The loop over the callbacks of the current line of r is over.
LoopOver(r) == rpc[r] = "dispatch" /\ diter[r].ci = 0 /\ diter[r].ki > diter[r].size

\* The callbacks called for the current line are matching ones, each called
\* once, in the order Before, none skipped; and all of them once the loop
\* is over, which it is before the next line is read.
Dispatched(r, Before(_, _)) ==
    LET c == Called(r)
        d == snap[r]
    IN  /\ \A i \in DOMAIN c : KeyMatches(d, c[i], cur[r])
        /\ \A i, j \in DOMAIN c : i < j => c[i] # c[j] /\ Before(c[i], c[j])
        /\ \A y \in Range(c) : \A x \in CbkIds(d) :
               (KeyMatches(d, x, cur[r]) /\ Before(x, y)) => x \in Range(c)
        /\ LoopOver(r) =>
               \A x \in CbkIds(d) : KeyMatches(d, x, cur[r]) => x \in Range(c)

\* C6: for each line, every matching callback is called once,
\* before the next line is read, in the order of registration, also across
\* different patterns.
C6_RegistrationOrder ==
    \A r \in Readers : rpc[r] = "dispatch" =>
        Dispatched(r, LAMBDA x, y : x < y)

\* C6, the order by key: for each line, every matching callback is called
\* once, before the next line is read; the order is by pattern key (keys in order of first
\* registration) and, within one key, the order of registration.
C6_KeyOrder ==
    \A r \in Readers : rpc[r] = "dispatch" =>
        Dispatched(r, LAMBDA x, y : KeyOrder(snap[r], x, y))

\* C6 witness: the loop is over for a line that matched callbacks of two
\* keys, registered alternately.
C6_Witness ==
    /\ LoopOver(1) /\ Len(Called(1)) = 3
    /\ SameKey(KeyOf(snap[1], 1), KeyOf(snap[1], 3))
    /\ ~SameKey(KeyOf(snap[1], 1), KeyOf(snap[1], 2))

\* ------------------------------------------------------ claims on Console
\* A line matches a pattern: a regular expression is searched for, any
\* other pattern has to occur in the line.
LineMatches(text, expr, regex) ==
    IF regex THEN ReSearch(expr, text) ELSE Contains(text, expr)

\* The lines the call has consumed and examined: all but the one it holds.
Examined == IF cpc = "check" THEN SubSeq(seen, 1, Len(seen) - 1) ELSE seen

\* Pattern i of the call is matched by one of lines.
MatchedIn(lines, i) ==
    \E j \in DOMAIN lines : LineMatches(lines[j].text, cop.msgs[i], cop.regex)
AllMatched(lines) == \A i \in DOMAIN cop.msgs : MatchedIn(lines, i)
AnyMatched(lines) == \E i \in DOMAIN cop.msgs : MatchedIn(lines, i)
Satisfied(lines) == IF cop.func = "all" THEN AllMatched(lines) ELSE AnyMatched(lines)

ExpectAll == cop.op = "expect" /\ cop.func = "all"
ExpectAny == cop.op = "expect" /\ cop.func = "any"

\* C7: expect_all has succeeded only if every pattern is matched by one of
\* the lines consumed since the call started, and while it has not
\* succeeded, some pattern is matched by none of the lines it has examined:
\* the matches are kept from line to line, in whatever order they come.
C7_AllAccumulate ==
    ExpectAll =>
        /\ cres.kind = "True" => AllMatched(seen)
        /\ cres.kind # "True" => ~AllMatched(Examined)

\* C7 witness: expect_all of two patterns has succeeded on two lines, the
\* first matching the second pattern only and the second the first only.
C7_Witness ==
    /\ ExpectAll /\ cres.kind = "True" /\ Len(cop.msgs) = 2 /\ Len(seen) = 2
    /\ ~MatchedIn(<<seen[1]>>, 1) /\ MatchedIn(<<seen[1]>>, 2)
    /\ MatchedIn(<<seen[2]>>, 1) /\ ~MatchedIn(<<seen[2]>>, 2)

\* The lines read after line k that are not in lost, in the order read.
ReadAfter(k, lost) ==
    SelectSeq([i \in 1..nread[Con] |-> i], LAMBDA i : i > k /\ i \notin lost)

\* The lines in the Console's queue, oldest first.
Queued == [i \in DOMAIN queue[QOf(Con)] |-> queue[QOf(Con)][i].idx]

\* expect_any returns True in this step.
AnyReturns == ExpectAny /\ cpc # "done" /\ cpc' = "done" /\ cres'.kind = "True"

\* expect_any succeeds on the first line consumed that matches a pattern.
FirstMatchEnds ==
    ExpectAny =>
        /\ cres.kind = "True" =>
               AnyMatched(<<seen[Len(seen)]>>)
               /\ ~AnyMatched(SubSeq(seen, 1, Len(seen) - 1))
        /\ cres.kind # "True" => ~AnyMatched(Examined)

Ran(cmd) ==
    IF cmd.kind = "str" THEN <<cmd.text>>
    ELSE IF cmd.kind = "callable" THEN <<<<"cmd()">>>> ELSE <<>>

\* C9: expect_any / expect_all clear the history if asked to, then run the
\* command, then wait: no line is consumed before the command was run, and
\* the command is run after the clear.  The call returns True, with the
\* combinator satisfied by the lines consumed, or it raises the failure
\* that names the command and the patterns, with the combinator not
\* satisfied and the timeout elapsed.  With clear_history=True no line
\* that was in the queue when the call began is consumed.
C9_ExpectContract ==
    cop.op = "expect" =>
        /\ cpc = "run" =>
               /\ written = <<>> /\ seen = <<>>
               /\ cop.clear => Ids(queue[QOf(Con)]) \cap atCall = {}
        /\ cpc # "run" => written = Ran(cop.cmd)
        /\ cop.clear => \A j \in DOMAIN seen : seen[j].idx \notin atCall
        /\ cpc = "done" => cres.kind \in {"True", "Exception"}
        /\ cpc # "done" => cres.kind = "none" /\ ~Satisfied(Examined)
        /\ cres.kind = "True" => Satisfied(seen)
        /\ cres.kind = "Exception" =>
               /\ ~Satisfied(seen) /\ budget = 0
               /\ cres.func = cop.func /\ cres.cmd = cop.cmd /\ cres.msgs = cop.msgs

\* C9 witness: a call with clear_history=True and a command, made with a
\* line in the queue, has consumed a later line and has raised the failure.
C9_Witness ==
    /\ cop.op = "expect" /\ cop.clear /\ cop.cmd.kind = "str" /\ atCall # {}
    /\ seen # <<>> /\ cres.kind = "Exception"

\* A line that carries the tag and the status: the tag, "=" and an integer
\* are the end of the line.
IsStatusLine(text) ==
    /\ Cardinality(Offsets(text, TagEq, 0)) = 1
    /\ IsInt(Spl1(text, TagEq))

\* The first line of lines that carries the tag and the status, 0 if none.
StatusAt(lines) ==
    IF \E j \in DOMAIN lines : IsStatusLine(lines[j].text)
    THEN First({j \in DOMAIN lines : IsStatusLine(lines[j].text)})
    ELSE 0

\* The output read before line j: the lines without the tag, and what comes
\* before the tag on line j, joined by newlines.
OutputTo(lines, j) ==
    LET texts == [i \in 1..(j - 1) |-> lines[i].text]
        plain == SelectSeq(texts, LAMBDA t : ~Contains(t, Tag))
    IN  Strip(Join(Append(plain, Spl0(lines[j].text, TagEq))))

\* C10: run_sh_cmd_output writes cmd followed by the tagged echo of the
\* status; and once it has read the line that carries the tag and the
\* status it has returned that status and the output lines read before that
\* line, for every cmd.
C10_StatusReturned ==
    cop.op = "sh" =>
        /\ cpc # "run" => written = <<ShCommand(cop.cmd.text)>>
        /\ StatusAt(Examined) # 0 =>
               /\ cres.kind = "return"
               /\ cres.rc = IntOf(Spl1(Examined[StatusAt(Examined)].text, TagEq))
               /\ cres.out = OutputTo(Examined, StatusAt(Examined))

\* --------------------------------------- claims on run_sh_cmd_output's time
\* One step of a run_sh_cmd_output, as C11 has it.
C11_Step ==
    cop'.op = "sh" =>
        \* the deadline is reached: the call raises and reads no more
        /\ (cpc = "loop" /\ cpc' # "loop" /\ budget <= 0) =>
               cpc' = "done" /\ cres' = ShTimeout
        \* or the read is given the time that remains
        /\ (cpc = "loop" /\ cpc' # "loop" /\ budget > 0) =>
               cpc' = "get" /\ rem' = budget
        /\ (cpc = "get" /\ cpc' = "wait") =>
               ~gblock'[Caller] /\ timer'[Caller] = rem
        /\ cpc' = "wait" => ~gblock'[Caller] /\ timer'[Caller] <= cop'.timeout
        \* a read that ends with Empty ends the call with the timeout
        /\ (cpc \in {"get", "wait"} /\ gres'.kind = "Empty") =>
               cpc' = "done" /\ cres' = ShTimeout
        \* the timeout is raised at the deadline only, and carries no status
        /\ cres'.kind = "Timeout" =>
               budget' = 0 /\ cres'.rc = 0 /\ cres'.out = <<>>

\* C11: run_sh_cmd_output raises the time-out exception, and returns no
\* status, when the deadline is reached before the line with the status was
\* read; every blocking read is given the time that remains until the
\* deadline as its timeout, so no read waits longer than that.
C11_TimeoutRaised == [][C11_Step]_vars

\* C11 witness: a call with a timeout above 0 has read a line that was not
\* the status, has waited, and has raised the time-out exception.
C11_Witness ==
    /\ cop.op = "sh" /\ cop.timeout > 0 /\ seen # <<>>
    /\ cpc = "done" /\ cres.kind = "Timeout"

\* ------------------------------------------------- claims on stop_process
\* The call of stop_process has ended: it has returned or it has raised.
StopEnded == spc = "done" /\ sres.kind # "none"

\* C12: in every backend a stop_process whose process does not exit within
\* timeout is no error: the call goes on to the kill and returns the exit
\* code, an integer; no time-out exception is raised to the caller.
C12_TimeoutIsNoError ==
    StopEnded => sres.kind # "TimeoutExpired"

\* C13: in every backend a call of stop_process comes to its end, given
\* that a process that is sent the kill exits: it does not block for ever,
\* also when the process ignores the graceful signal and when the output
\* threads of the handle never finish, their join being bounded.
C13_StopEnds == (spc \notin {"idle", "done"}) ~> (spc = "done")

\* C13 witness: a stop_process of a process that ignores the graceful
\* signal has sent the kill and has ended with the output threads alive.
C13_Witness ==
    /\ StopEnded /\ stubborn[sarg.h] /\ gkill # 0 - 2
    /\ thr[sarg.h] = "alive" /\ backend \in {"noop", "bwrap", "sctf"}

\* C14: in every backend stop_process(handle, timeout) first requests the
\* graceful termination, and sends the kill only to a process still alive
\* once timeout has passed since that request: whenever the kill was sent,
\* the graceful request was made at least timeout before it.
C14_GracefulFirst ==
    gkill # 0 - 2 => gkill >= 0 /\ gkill >= sarg.timeout

\* The call of stop_process is made on a handle for which an earlier
\* stop_process has returned.
RepeatedStop ==
    /\ spc # "idle"
    /\ nstops[sarg.h] >= (IF StopEnded /\ sres.kind = "return" THEN 2 ELSE 1)

\* C15: stop_process is idempotent: a call on a handle for which an
\* earlier stop_process has returned returns what the first call returned,
\* and sends no terminate and no kill.
C15_Idempotent ==
    RepeatedStop =>
        /\ gterm = 0 - 1 /\ gkill = 0 - 2
        /\ StopEnded => sres.kind = "return" /\ sres.code = first[sarg.h]

\* C16: in every backend is_process_running(handle) is False whenever
\* handle.exit_code is set, and so as soon as stop_process has returned for
\* the handle, also when it reported the sentinel of the kill.
C16_NotRunningOnceStopped ==
    \A h \in Handles : exit_code[h] # None => ~IsProcessRunning(h)

\* C17: the exit_code of a ProcessHandle is written once: it is None from
\* execute until a stop_process sets it, and no later step changes the
\* value it was set to or resets it to None.
C17_ExitCodeWrittenOnce ==
    [][\A h \in Handles :
          /\ exit_code[h] # None => exit_code'[h] = exit_code[h]
          /\ exit_code'[h] # exit_code[h] => spc # "idle" /\ sarg.h = h]_vars

\* C18: for all backends, when the process started by execute has exited
\* by itself with code c by the time stop_process ends, stop_process
\* returns c and stores c in handle.exit_code.
C18_NaturalExitCode ==
    [][(/\ spc # "done" /\ spc' = "done"
        /\ pst'[sarg.h] # "run" /\ pcode'[sarg.h] \in ExitCodes)
       => /\ sres'.kind = "return" /\ sres'.code = pcode'[sarg.h]
          /\ exit_code'[sarg.h] = Some(pcode'[sarg.h])]_vars

\* ----------------------------------------- claims on teardown and execute
\* C19: teardown is best-effort: it does not raise; a stop_process that
\* fails for one tracked handle does not keep it from dealing with the
\* handles after it, each of which is stopped or was not running; and when
\* it has returned the environment tracks no handle.
C19_TeardownBestEffort ==
    /\ tpc # "raised"
    /\ tpc = "done" =>
           /\ handles = <<>>
           /\ \A h \in Handles : made[h] => \E i \in DOMAIN tseen : tseen[i] = h
           /\ \A i \in DOMAIN tseen :
                  tseen[i] \notin tfailed => ~IsProcessRunning(tseen[i])

\* C19 witness: teardown has returned; the stop_process of the first
\* tracked handle raised, and the handle after it was stopped.
C19_Witness ==
    /\ tpc = "done" /\ Len(tseen) >= 2
    /\ tseen[1] \in tfailed
    /\ tseen[2] \notin tfailed /\ nstops[tseen[2]] = 1

\* C20: in the noop and bwrap backends execute of a path that is not an
\* executable file (missing, a directory, a file without the execute
\* permission) raises the invalid-executable error before any process is
\* spawned and leaves _handles as it was; bwrap has called os.chmod once
\* before it raises.
C20_InvalidPathRejected ==
    [][(/\ eres' # eres \/ spawned' # spawned \/ made' # made
        /\ eres'.path # "exec")
       => /\ eres'.out = "RuntimeError"
          /\ spawned' = spawned /\ handles' = handles
          /\ backend = "bwrap" => eres'.chmod]_vars

\* ------------------------------------------------ claims on discovery
\* _find_application has used up its attempts with the supervisor alive at
\* its last parent.poll().
DiscoveryTimedOut == fpc = "done" /\ raised = "RuntimeError" /\ polled = "alive"

\* The handle execute returned has no child and no pid, and is tracked.
ChildlessHandle == eout = "handle" /\ hchild = None /\ hpid = None /\ tracked

C22_FastExitBenign ==
    /\ polled = "ended" => raised = "none" /\ result = NoChild
    /\ (fpc = "done" /\ parent_proc # "run" /\ result = NoChild) => ChildlessHandle

C22_Witness ==
    /\ fpc = "done" /\ polled = "ended" /\ parent_proc = "gone"
    /\ ChildlessHandle

\* The order in which walk visits the live descendants of q.
RECURSIVE Preorder(_, _, _), PreorderList(_, _, _)
PreorderList(t, alive, cs) ==
    IF cs = <<>> THEN <<>>
    ELSE <<Head(cs)>> \o Preorder(t, alive, Head(cs)) \o PreorderList(t, alive, Tail(cs))

Preorder(t, alive, q) == PreorderList(t, alive, Children(t, alive, q))

Visited == Preorder(tree, live, 0)

\* The live descendant at place i of the walk has the basename of the
\* target, and those before it are of kind "other".
ReachedTarget(i) ==
    /\ tree[Visited[i]].kind = "target"
    /\ \A j \in 1..(i - 1) : tree[Visited[j]].kind = "other"

BwrapStop == backend = "bwrap" /\ spc # "idle"
WithChild == BwrapStop /\ child[sarg.h]
ChildNone == BwrapStop /\ ~child[sarg.h]

\* C24: in stop_process of the bwrap backend, with a child: the kill goes to
\* the child only, only while the child is alive, and only once the five
\* waits of one second that follow the graceful signal have run out, and
\* the code returned is the one collected from the supervisor; with no
\* child: the supervisor is sent the graceful signal, waited for once for
\* timeout, and sent the kill when that wait runs out.
C24_StopOrder ==
    /\ [](WithChild =>
            /\ psig[sarg.h] = "none"
            /\ gkill # 0 - 2 => gkill = ChildWaits * ChildWait
            /\ (StopEnded /\ sres.kind = "return")
                   => sres.code = pcode[sarg.h] /\ pst[sarg.h] = "gone")
    /\ [](ChildNone =>
            /\ csig[sarg.h] = "none"
            /\ gkill # 0 - 2 => gkill = sarg.timeout
            /\ (StopEnded /\ sres.kind = "return")
                   => sres.code = pcode[sarg.h] /\ pst[sarg.h] = "gone")
    /\ [][(BwrapStop /\ csig'[sarg.h] = "kill" /\ csig[sarg.h] # "kill")
             => /\ child[sarg.h] /\ ChildIsRunning(sarg.h)
                /\ gterm = ChildWaits * ChildWait /\ gkill' = gterm]_vars
    /\ [][(BwrapStop /\ psig'[sarg.h] = "kill" /\ psig[sarg.h] # "kill")
             => /\ ~child[sarg.h] /\ pst[sarg.h] = "run"
                /\ gterm = sarg.timeout /\ gkill' = gterm]_vars

\* The child ignored the graceful signal, was killed after the five waits,
\* and the code of the supervisor was returned.
C24_Witness ==
    /\ WithChild /\ StopEnded /\ sres.kind = "return"
    /\ gkill = ChildWaits * ChildWait
    /\ sres.code = KillCode

\* --------------------------------------- claims on container stop_process
\* A stop_process of a backend with a container has ended.
ContainerStopEnded == backend \in {"docker", "sctf"} /\ StopEnded

SetupAgain == last = "setup" /\ setup_res = "returned" /\ nsetup' = nsetup + 1

\* C26: setup is idempotent: a setup that follows a setup that returned
\* leaves the Environment and its containers as they were; at most one
\* container of the Environment runs at any time, and none runs once
\* teardown has returned.
C26_SetupIdempotent ==
    /\ [](Cardinality(up) <= 1)
    /\ [](last = "teardown" => up = {})
    /\ [][SetupAgain => UNCHANGED <<objvars, rtvars>>]_vars

C28_RoundTrip == xpc = "back" => host[host_path] = source

\* -------------------------------------------- claims on the configuration
\* C29: the configuration is immutable after construction: no call changes
\* the image the Environment was given, nor the lists of extra mounts; the
\* command line built for one execute leaves the list of mounts as the next
\* execute is to see it.
C29_ConfigImmutable ==
    [][/\ image' = image
       /\ extra_mount_list' = extra_mount_list
       /\ env_mounts' = env_mounts]_vars


\* ---- claims on the end of LineReader.run ----

\* The loop of run is over: it broke on the sentinel, or an exception left it.
RunOver(r) == rpc[r] \in {"ended", "dead"}

\* C30: the loop of LineReader.run is over only because readline_func gave
\* the end-of-stream sentinel, never because of a callback or of the
\* dispatch of a line, and once it is over the reader reads and enqueues no
\* further line and invokes no callback.
C30_EndsOnlyOnSentinel ==
    /\ [](\A r \in Readers : RunOver(r) => rpc[r] = "ended")
    /\ [][\A r \in Readers :
            RunOver(r) => /\ RunOver(r)'
                           /\ nread'[r] = nread[r]
                           /\ invoked'[r] = invoked[r]
                           /\ queue'[QOf(r)] = queue[QOf(r)]]_vars


\* ---- claims on the output readers of execute ----

\* C31: in every backend, a handle that execute has returned records an
\* output-reader thread that execute started (ProcessHandle.stdout_thread),
\* the one stop_process joins.
C31_ReaderRecorded == \A h \in Handles : made[h] => thr[h] \in {"alive", "done"}


\* ---- claims on the ownership of the queues ----

\* The lines get_line of reader r may return and clear_history of reader r
\* removes: those of the queue self._log_queue of r.
QueueOf(r) == queue[QOf(r)]

\* C32: each LineReader owns its queue, also when two readers are given the
\* same logfile: the queue get_line and clear_history of a reader work on
\* holds lines read from the stream of that reader only.
C32_OwnQueue ==
    \A r \in Readers : \A i \in 1..Len(QueueOf(r)) : QueueOf(r)[i].rd = r


\* ---- claims on Console.mark ----

\* mark has returned.
MarkReturned == cpc = "done" /\ cop.op = "mark"

\* The i-th pair of time_points holds a time.
Stamped(i) == time_points[i].t # "None"

\* Line k of those the call consumed matches the i-th msg.
MatchAt(k, i) == CheckMsg(seen[k].text, cop.msgs[i], FALSE)

\* The lines consumed by the read_until of the i-th msg.
SearchOf(i) == ((IF i = 1 THEN 0 ELSE upto[i - 1]) + 1)..upto[i]

\* One pair per msg, in the order of msgs.
OnePairEach ==
    /\ Len(time_points) = Len(cop.msgs)
    /\ \A i \in 1..Len(cop.msgs) : time_points[i].msg = cop.msgs[i]

\* C33: mark returns one pair per pattern, in the order requested, and the
\* pair of a pattern holds a time if and only if a line matching the
\* pattern came within timeout of the command, wherever the other patterns
\* appear: it holds a time only if the call consumed a matching line, and
\* it holds one if the call consumed a matching line less than timeout
\* after the command.
C33_Independent ==
    MarkReturned =>
        /\ OnePairEach
        /\ \A i \in 1..Len(cop.msgs) :
              /\ Stamped(i) => \E k \in 1..Len(seen) : MatchAt(k, i)
              /\ (\E k \in 1..intime : MatchAt(k, i)) => Stamped(i)

\* C33, amended: mark returns one pair per pattern, in the order requested;
\* the patterns are sought one after the other, and the pair of a pattern
\* holds a time if and only if its own read_until consumed a line matching
\* it, which is then the last line that read_until consumed.
C33_Sequential ==
    /\ MarkReturned => OnePairEach
    /\ cop.op = "mark" =>
        \A i \in 1..Len(time_points) :
            /\ time_points[i].msg = cop.msgs[i]
            /\ Stamped(i) <=> \E k \in SearchOf(i) : MatchAt(k, i)
            /\ \A k \in SearchOf(i) : MatchAt(k, i) => k = upto[i]

\* mark has returned a time for the first of two patterns and None for the
\* second, a line matching the second having been consumed, in time, by the
\* search for the first.
C33_Witness ==
    /\ MarkReturned
    /\ Len(cop.msgs) = 2
    /\ Stamped(1) /\ ~Stamped(2)
    /\ \E k \in 1..upto[1] : k <= intime /\ MatchAt(k, 2)


\* ---- claims on the tree walk of BwrapSandbox ----

\* C35: find_process_in_tree of BwrapSandbox returns a live descendant of
\* the supervisor with the basename of the target whenever the walk of the
\* whole tree comes to one, whichever sibling subtree holds it: it goes on
\* with the next sibling after a child whose subtree does not hold it.
C35_AnySubtree ==
    \A i \in 1..Len(Visited) :
        attempt > 0 /\ ReachedTarget(i) => walked = Found(Visited[i])


\* ---- claims on the log section ----

\* s is t with some entries left out, the others in the same order.
RECURSIVE IsSubSeq(_, _)
IsSubSeq(s, t) ==
    IF s = <<>> THEN TRUE
    ELSE IF t = <<>> THEN FALSE
    ELSE IF Head(s) = Head(t) THEN IsSubSeq(Tail(s), Tail(t))
    ELSE IsSubSeq(s, Tail(t))

\* The readers between the write to the logfile and the put into its queue.
InSection == {r \in Readers : lpc[r] \in {"locked", "written", "flushed"}}

\* C34: of the readers of one logfile at most one at a time is in the
\* section that writes an entry to the file and puts it into the shared
\* queue, and the entries in the shared queue are in the order in which
\* they are in the file.
C34_SameOrder ==
    /\ Cardinality(InSection) <= 1
    /\ InSection \subseteq {lock}
    /\ IsSubSeq(queue[SharedQ], file)

\* The shared queue holds entries of both readers, one reader having
\* waited for the lock while the other was in the section.
C34_Witness ==
    /\ \A r \in Readers : \E i \in 1..Len(queue[SharedQ]) : queue[SharedQ][i].rd = r
    /\ \E r \in Readers : lpc[r] = "line" /\ lock \notin {0, r}


\* ---- claims on the wake-ups of LineReaderQueue ----

\* Consumer c is blocked in a get on the queue under test, which holds a line.
BlockedNonEmpty(c) == gpc[c] = "waiting" /\ gq[c] = TestQ /\ queue[TestQ] # <<>>

\* The lines in the queue under test were put, each once.
QueuedWerePut ==
    \A i \in 1..Len(queue[TestQ]) :
        /\ queue[TestQ][i] \in 1..nput
        /\ \A j \in 1..Len(queue[TestQ]) : queue[TestQ][j] = queue[TestQ][i] => j = i

\* A get that returns a line takes it out of the queue, where it was.
GetTakesQueued ==
    gres'.kind = "item" =>
        /\ \E i \in 1..Len(queue[TestQ]) : queue[TestQ][i] = gres'.item
        /\ \A i \in 1..Len(queue'[TestQ]) : queue'[TestQ][i] # gres'.item

\* C36: LineReaderQueue has no lost wake-up: no consumer stays blocked in get
\* for ever while the queue holds a line; and a line that a get returns was
\* put before and is taken out of the queue by that get, the lines in the
\* queue being distinct, so that no line is returned to two gets.
C36_NoLostWakeup ==
    /\ \A c \in FairConsumers : BlockedNonEmpty(c) ~> ~BlockedNonEmpty(c)
    /\ []QueuedWerePut
    /\ [][GetTakesQueued]_vars

\* Both consumers are blocked in get with no timeout, and the queue holds a
\* line: one of them was notified and has not run yet.
C36_Witness ==
    /\ \A c \in FairConsumers : BlockedNonEmpty(c) /\ gblock[c]
    /\ \E c \in FairConsumers : notified[c]
    /\ \E c \in FairConsumers : ~notified[c]


\* ---- claims on add_expr_cbk during a dispatch ----

\* The reader r is between two keys of its for loop over _expr_cbks, and a
\* key was registered since the loop began.
RegisteredDuringDispatch(r) ==
    rpc[r] = "dispatch" /\ diter[r].ci = 0 /\ Len(expr_cbks[r]) # diter[r].size

\* C37: add_expr_cbk called while the reader thread dispatches a line never
\* ends the loop of run, so that the later lines are enqueued and the new
\* callback is called for those that match: the step the reader takes after
\* the registration leaves it running.
C37_RegistrationKeepsReader ==
    [][\A r \in Readers : RegisteredDuringDispatch(r) => rpc'[r] # "dead"]_vars


\* ---- claims on a setup after teardown ----

\* The Environment was built from a sysroot, with no image.
FromSysroot == conf.backend = "docker" /\ conf.sysroot /\ ~conf.image

\* The call made in this step is a setup that follows a teardown.
SetupAfterTeardown == last = "teardown" /\ nsetup' = nsetup + 1

\* C38: a DockerEnvironment built from a sysroot can be set up again after
\* teardown: the setup that follows a teardown imports the sysroot again,
\* so that the image it starts the container from is one the runtime holds
\* and not a tag that teardown has removed.
C38_SetupAfterTeardown ==
    [][FromSysroot /\ SetupAfterTeardown => image' \in images']_vars


\* ---- claims on the handler of SIGTERM ----

\* Some wrapper was started, and every started wrapper has completed
\* kill_process.
AllKilled ==
    /\ \E w \in Wrappers : phase[w] = "killed"
    /\ \A w \in Wrappers : phase[w] # "started"

\* C39: whatever start_process, kill_process and restart_process calls were
\* made on the ProcessWrappers, and whatever SIGTERM was delivered, once
\* every started wrapper has completed kill_process the handler of SIGTERM
\* is the one that was installed before the first start_process.
C39_HandlerRestored == AllKilled => sigterm = Original


\* ---- claims on the tracked handles ----

\* How many times handle h is in _handles.
TimesTracked(h) == Len(SelectSeq(handles, LAMBDA g : g = h))

\* execute has returned h and no stop_process of h has returned.
ReturnedNotStopped(h) == made[h] /\ nstops[h] = 0

\* _handles holds each handle execute has returned and no stop_process has
\* returned for once, and no other handle.
TrackedExactly ==
    \A h \in Handles : TimesTracked(h) = IF ReturnedNotStopped(h) THEN 1 ELSE 0

\* The step is an execute that raises.
ExecuteRaises == spawned' = spawned /\ eres' # eres /\ eres'.out = "RuntimeError"

\* The step is the one in which stop_process raises.
StopRaises == spc # "done" /\ spc' = "done" /\ sres'.kind # "return"

\* An execute that raises leaves _handles as it was.
RaisedNotTracked == backend \in Tracking /\ ExecuteRaises => handles' = handles

\* A stop_process that raises leaves _handles as it was, its handle in it.
RaisedStaysTracked ==
    backend \in Tracking /\ StopRaises =>
        /\ handles' = handles
        /\ ReturnedNotStopped(sarg.h) => TimesTracked(sarg.h) = 1

\* C40: in the namespace and direct backends, after any execute and
\* stop_process calls the tracked handles are exactly those execute has
\* returned and no stop_process has returned for, each once; an execute
\* that raises tracks nothing, and a stop_process that raises leaves its
\* handle tracked.
C40_TrackedHandles ==
    /\ [](backend \in Tracking => TrackedExactly)
    /\ [][RaisedNotTracked]_vars
    /\ [][RaisedStaysTracked]_vars

\* Two handles were returned, stop_process of the first has returned and
\* that of the second has raised, and the second alone is tracked.
C40_Witness ==
    /\ backend \in Tracking
    /\ made[1] /\ made[2]
    /\ nstops[1] > 0 /\ nstops[2] = 0
    /\ spc = "done" /\ sarg.h = 2 /\ sres.kind \notin {"none", "return"}
    /\ handles = <<2>>

====
